---- MODULE Spec2Model ----
(***************************************************************************)
(* Model of the transcript-to-flashcard pipeline of app.py:                *)
(*   preprocess_transcript, chunk_text, fix_cloze_formatting,              *)
(*   get_anki_cards_for_chunk and get_all_anki_cards /                     *)
(*   get_all_interactive_questions, of the handlers generate and           *)
(*   download_apkg, and of the scripts of the review page and of the quiz  *)
(*   page.                                                                 *)
(*                                                                         *)
(* A Python str is a sequence of one-character strings.  The regular       *)
(* expressions of the source are kept as data (sequences of items) and     *)
(* run by a backtracking matcher that tries the alternatives in the order  *)
(* Python's re module tries them, so greedy and lazy quantifiers pick the  *)
(* same match as in the program.                                           *)
(***************************************************************************)
EXTENDS Integers, Sequences, FiniteSets, TLC

(***************************************************************************)
(* Character classes of Python's re (ASCII part).                          *)
(***************************************************************************)
Whitespace == {" ", "\t", "\n", "\r", "\f"}
Digits == {"0", "1", "2", "3", "4", "5", "6", "7", "8", "9"}
Upper == {"A", "B", "C", "D", "E", "F", "G", "H", "I", "J", "K", "L", "M",
          "N", "O", "P", "Q", "R", "S", "T", "U", "V", "W", "X", "Y", "Z"}
Lower == {"a", "b", "c", "d", "e", "f", "g", "h", "i", "j", "k", "l", "m",
          "n", "o", "p", "q", "r", "s", "t", "u", "v", "w", "x", "y", "z"}
WordChars == Upper \cup Lower \cup Digits \cup {"_"}

(***************************************************************************)
(* Regex items.  Every item is a record of the same shape:                 *)
(*   t = "fix"  : a sequence of character sets (in alts), one character    *)
(*                each: literals, [.,], \d{2}                              *)
(*   t = "rep"  : a character class (set, negated when neg) repeated       *)
(*                min..max times (no upper limit when unb), greedy or      *)
(*                lazy; when n > 0 the repetition is capture group n       *)
(*   t = "alt"  : alternatives (sequences of items) in priority order      *)
(*   t = "bol", "bolm", "eol", "eolm", "wb" : the assertions ^ (without   *)
(*                and with re.MULTILINE), $ (likewise) and \b              *)
(* Capture groups that the program never reads are not recorded.           *)
(***************************************************************************)
Item(t, set, neg, min, max, unb, greedy, n, alts) ==
    [t |-> t, set |-> set, neg |-> neg, min |-> min, max |-> max,
     unb |-> unb, greedy |-> greedy, n |-> n, alts |-> alts]

Fix(sets)          == Item("fix", {}, FALSE, 0, 0, FALSE, TRUE, 0, sets)
Rep(set, min, max) == Item("rep", set, FALSE, min, max, FALSE, TRUE, 0, <<>>)
Star(set)          == Item("rep", set, FALSE, 0, 0, TRUE, TRUE, 0, <<>>)
Plus(set)          == Item("rep", set, FALSE, 1, 0, TRUE, TRUE, 0, <<>>)
PlusCap(set, n)    == Item("rep", set, FALSE, 1, 0, TRUE, TRUE, n, <<>>)
\* (.*?) as capture group n: every character but those of set, lazily
LazyCap(set, n)    == Item("rep", set, TRUE, 0, 0, TRUE, FALSE, n, <<>>)
Alt(alts)          == Item("alt", {}, FALSE, 0, 0, FALSE, TRUE, 0, alts)
Opt(seq)           == Alt(<<seq, <<>>>>)
Assert_(t)         == Item(t, {}, FALSE, 0, 0, FALSE, TRUE, 0, <<>>)

\* "." without re.DOTALL is every character but the newline; with it, every one
Newline == {"\n"}
Nothing == {}

InClass(c, it) == (c \in it.set) # it.neg

NGroups == 3
NoGroup == <<0 - 1, 0 - 1>>
NoGroups == [n \in 1..NGroups |-> NoGroup]
Fail == [ok |-> FALSE, start |-> 0, end |-> 0, grp |-> NoGroups]
Capture(g, n, a, b) == IF n = 0 THEN g ELSE [g EXCEPT ![n] = <<a, b>>]

IsWord(s, p) == p >= 1 /\ p <= Len(s) /\ s[p] \in WordChars

\* the assertions, at offset pos (pos characters of s are before the cursor)
Holds(t, s, pos) ==
    CASE t = "bol"  -> pos = 0
      [] t = "bolm" -> pos = 0 \/ s[pos] = "\n"
      [] t = "eol"  -> pos = Len(s) \/ (pos = Len(s) - 1 /\ s[Len(s)] = "\n")
      [] t = "eolm" -> pos = Len(s) \/ s[pos + 1] = "\n"
      [] t = "wb"   -> IsWord(s, pos) # IsWord(s, pos + 1)

\* the characters at pos are one of each set of sets, in order
FixAt(sets, s, pos) ==
    /\ pos + Len(sets) <= Len(s)
    /\ \A k \in 1..Len(sets) : s[pos + k] \in sets[k]

\* the first index in lo..hi whose character is outside the class, else hi + 1
FirstOut(it, s, lo, hi) ==
    IF \A j \in lo..hi : InClass(s[j], it) THEN hi + 1
    ELSE CHOOSE j \in lo..hi :
            ~InClass(s[j], it) /\ \A i \in lo..(j - 1) : InClass(s[i], it)

\* the last index in lo..hi whose character is outside the class, else lo - 1
LastOut(it, s, lo, hi) ==
    IF \A j \in lo..hi : InClass(s[j], it) THEN lo - 1
    ELSE hi - (CHOOSE k \in 0..(hi - lo) :
                  ~InClass(s[hi - k], it) /\ \A i \in (hi - k + 1)..hi : InClass(s[i], it))

Min2(a, b) == IF a < b THEN a ELSE b
Max2(a, b) == IF a > b THEN a ELSE b

\* the longest run of characters of the item's class at pos, capped by max
RunLen(it, s, pos) ==
    LET hi == IF it.unb THEN Len(s) ELSE Min2(Len(s), pos + it.max)
    IN FirstOut(it, s, pos + 1, hi) - (pos + 1)

(***************************************************************************)
(* The backtracking matcher: the first match, in Python's priority order,  *)
(* of the item sequence at offset pos.                                     *)
(***************************************************************************)
RECURSIVE Match(_, _, _, _)
RECURSIVE TryRange(_, _, _, _, _, _, _, _)
RECURSIVE TryAlts(_, _, _, _, _, _)

Match(items, s, pos, g) ==
    IF items = <<>>
    THEN [ok |-> TRUE, start |-> 0, end |-> pos, grp |-> g]
    ELSE CASE items[1].t = "fix" ->
                IF FixAt(items[1].alts, s, pos)
                THEN Match(Tail(items), s, pos + Len(items[1].alts), g)
                ELSE Fail
           [] items[1].t = "rep" ->
                IF RunLen(items[1], s, pos) < items[1].min THEN Fail
                ELSE TryRange(items[1].n, Tail(items), s, pos, g, items[1].min,
                              RunLen(items[1], s, pos), ~items[1].greedy)
           [] items[1].t = "alt" -> TryAlts(items[1].alts, 1, Tail(items), s, pos, g)
           [] OTHER ->
                IF Holds(items[1].t, s, pos) THEN Match(Tail(items), s, pos, g) ELSE Fail

\* the repetition counts lo..hi, tried shortest first (lazy, up) or longest
\* first (greedy); n is the capture group of the repetition, or 0
TryRange(n, rest, s, pos, g, lo, hi, up) ==
    IF lo >= hi THEN Match(rest, s, pos + lo, Capture(g, n, pos, pos + lo))
    ELSE LET mid == (lo + hi) \div 2
             r   == IF up THEN TryRange(n, rest, s, pos, g, lo, mid, up)
                          ELSE TryRange(n, rest, s, pos, g, mid + 1, hi, up)
         IN IF r.ok THEN r
            ELSE IF up THEN TryRange(n, rest, s, pos, g, mid + 1, hi, up)
                       ELSE TryRange(n, rest, s, pos, g, lo, mid, up)

TryAlts(alts, i, rest, s, pos, g) ==
    IF i > Len(alts) THEN Fail
    ELSE LET r == Match(alts[i] \o rest, s, pos, g)
         IN IF r.ok THEN r ELSE TryAlts(alts, i + 1, rest, s, pos, g)

MatchAt(items, s, pos) ==
    LET r == Match(items, s, pos, NoGroups)
    IN IF r.ok THEN [r EXCEPT !.start = pos] ELSE r

\* The non-overlapping matches re.sub rewrites, left to right.  Hits is the
\* sequence of the matches that start at each offset of s, in offset order.
\* Scan walks hits[lo..hi] with the cursor at cur: a match is taken when it
\* starts at the cursor or after it, and the cursor then moves to its end.  No
\* pattern of the program matches the empty string.  The range is split in
\* four so that the recursion stays shallow on long strings.
IsOk(m) == m.ok

Hits(items, s) == SelectSeq([p \in 1..(Len(s) + 1) |-> MatchAt(items, s, p - 1)], IsOk)

RECURSIVE Scan(_, _, _, _)
Scan(hits, lo, hi, cur) ==
    IF lo > hi THEN [ms |-> <<>>, cur |-> cur]
    ELSE IF lo = hi
    THEN IF hits[lo].start >= cur
         THEN [ms |-> <<hits[lo]>>, cur |-> hits[lo].end]
         ELSE [ms |-> <<>>, cur |-> cur]
    ELSE LET q  == (hi - lo + 4) \div 4
             r1 == Scan(hits, lo, Min2(lo + q - 1, hi), cur)
             r2 == Scan(hits, lo + q, Min2(lo + 2 * q - 1, hi), r1.cur)
             r3 == Scan(hits, lo + 2 * q, Min2(lo + 3 * q - 1, hi), r2.cur)
             r4 == Scan(hits, lo + 3 * q, hi, r3.cur)
         IN [ms |-> r1.ms \o r2.ms \o r3.ms \o r4.ms, cur |-> r4.cur]

FindAll(items, s) ==
    LET hits == Hits(items, s)
    IN IF hits = <<>> THEN <<>> ELSE Scan(hits, 1, Len(hits), 0).ms

Slice(s, a, b) == SubSeq(s, a + 1, b)
Group(s, m, n) == Slice(s, m.grp[n][1], m.grp[n][2])
HasGroup(m, n) == m.grp[n] # NoGroup

\* the text left of match k that the previous match did not consume
Gap(s, ms, k) == Slice(s, IF k = 1 THEN 0 ELSE ms[k - 1].end, ms[k].start)
\* Rest with the text after the last match lost.
RestDropped(s, ms) == <<>>

\* the text after the last match
Rest(s, ms) == Slice(s, IF ms = <<>> THEN 0 ELSE ms[Len(ms)].end, Len(s))

\* the concatenation of the strings parts[lo..hi]
RECURSIVE Join(_, _, _)
Join(parts, lo, hi) ==
    IF lo > hi THEN <<>>
    ELSE IF lo = hi THEN parts[lo]
    ELSE LET q == (hi - lo + 4) \div 4
         IN Join(parts, lo, Min2(lo + q - 1, hi))
            \o Join(parts, lo + q, Min2(lo + 2 * q - 1, hi))
            \o Join(parts, lo + 2 * q, Min2(lo + 3 * q - 1, hi))
            \o Join(parts, lo + 3 * q, hi)

\* re.sub(items, repl, s) for a constant replacement string (the empty string
\* has nothing to rewrite)
Replace(items, repl, s) ==
    IF s = <<>> THEN <<>>
    ELSE LET ms == FindAll(items, s)
         IN Join([k \in 1..Len(ms) |-> Gap(s, ms, k) \o repl], 1, Len(ms)) \o Rest(s, ms)

SpaceClass == [set |-> Whitespace, neg |-> FALSE]

\* str.strip()
Strip(s) ==
    LET a == FirstOut(SpaceClass, s, 1, Len(s))
        b == LastOut(SpaceClass, s, 1, Len(s))
    IN SubSeq(s, a, b)

\* re.sub(r'[{}]', '', s)
NotBrace(c) == c \notin {"{", "}"}
RemoveBraces(s) == SelectSeq(s, NotBrace)

\* x in s, for strings
Contains(s, x) == \E p \in 0..(Len(s) - Len(x)) : Slice(s, p, p + Len(x)) = x

(***************************************************************************)
(* preprocess_transcript                                                   *)
(***************************************************************************)
\* \d{2}:\d{2}:\d{2} followed by one character of sep and \d{3}
Stamp(sep) ==
    Fix(<< Digits, Digits, {":"}, Digits, Digits, {":"}, Digits, Digits, sep,
           Digits, Digits, Digits >>)
Arrow == << Star(Whitespace), Fix(<<{"-"}, {"-"}, {">"}>>), Star(Whitespace) >>

\* \d{2}:\d{2}:\d{2}[.,]\d{3}\s*-->\s*\d{2}:\d{2}:\d{2}[.,]\d{3}\s*\n?
vtt_pattern ==
    <<Stamp({".", ","})>> \o Arrow
    \o << Stamp({".", ","}), Star(Whitespace), Rep({"\n"}, 0, 1) >>

\* \d{2}:\d{2}:\d{2},\d{3}\s*-->\s*\d{2}:\d{2}:\d{2},\d{3}\s*\n?
srt_pattern ==
    <<Stamp({","})>> \o Arrow \o << Stamp({","}), Star(Whitespace), Rep({"\n"}, 0, 1) >>

\* \[?\b\d{1,2}:\d{2}(:\d{2})?([.,]\d+)?\b\]?\s*
simple_pattern ==
    << Rep({"["}, 0, 1), Assert_("wb"), Rep(Digits, 1, 2), Fix(<<{":"}, Digits, Digits>>),
       Opt(<< Fix(<<{":"}, Digits, Digits>>) >>),
       Opt(<< Fix(<<{".", ","}>>), Plus(Digits) >>),
       Assert_("wb"), Rep({"]"}, 0, 1), Star(Whitespace) >>

\* ^\d+\s*$  (re.MULTILINE)
index_pattern == << Assert_("bolm"), Plus(Digits), Star(Whitespace), Assert_("eolm") >>

\* ^[A-Z][a-zA-Z0-9\s_]+:\s*  (re.MULTILINE)
speaker_pattern ==
    << Assert_("bolm"), Fix(<<Upper>>), Plus(WordChars \cup Whitespace), Fix(<<{":"}>>),
       Star(Whitespace) >>

\* the tail .*?\n(\n|$) of the header patterns; "." is every character but
\* those of notdot
BlockTail(notdot) ==
    << LazyCap(notdot, 0), Fix(<<{"\n"}>>), Alt(<< <<Fix(<<{"\n"}>>)>>, <<Assert_("eol")>> >>) >>

\* ^WEBVTT.*?\n(\n|$)  (re.IGNORECASE)
webvtt_pattern ==
    << Assert_("bol"),
       Fix(<<{"W", "w"}, {"E", "e"}, {"B", "b"}, {"V", "v"}, {"T", "t"}, {"T", "t"}>>) >>
    \o BlockTail(Newline)

\* ^NOTE.*?\n(\n|$)  (re.DOTALL)
note_pattern ==
    << Assert_("bol"), Fix(<<{"N"}, {"O"}, {"T"}, {"E"}>>) >> \o BlockTail(Nothing)

\* ^STYLE.*?\n(\n|$)  (re.DOTALL)
style_pattern ==
    << Assert_("bol"), Fix(<<{"S"}, {"T"}, {"Y"}, {"L"}, {"E"}>>) >> \o BlockTail(Nothing)

\* ^REGION.*?\n(\n|$)  (re.DOTALL)
region_pattern ==
    << Assert_("bol"), Fix(<<{"R"}, {"E"}, {"G"}, {"I"}, {"O"}, {"N"}>>) >>
    \o BlockTail(Nothing)

\* \s+
space_pattern == << Plus(Whitespace) >>

\* The nine removals, in the order preprocess_transcript makes them.  No
\* pattern matches the empty string, so a text that has become empty stays
\* empty.
RemovalPatterns ==
    << vtt_pattern, srt_pattern, simple_pattern, index_pattern, speaker_pattern,
       webvtt_pattern, note_pattern, style_pattern, region_pattern >>

RECURSIVE RemoveAll(_, _)
RemoveAll(text, k) ==
    IF text = <<>> \/ k > Len(RemovalPatterns) THEN text
    ELSE RemoveAll(Replace(RemovalPatterns[k], <<>>, text), k + 1)

\* preprocess_transcript with the removal of timestamps, labels and headers
\* lost: only the whitespace is normalised.
preprocess_spaces_only(text) ==
    IF text = <<>> THEN <<>> ELSE Strip(Replace(space_pattern, <<" ">>, text))

preprocess_transcript(text) ==
    IF text = <<>> THEN <<>>
    ELSE Strip(Replace(space_pattern, <<" ">>, RemoveAll(text, 1)))

(***************************************************************************)
(* chunk_text                                                              *)
(***************************************************************************)
SearchWindow == 250

DefaultMinSize == 200

\* text.rfind(c, a, b) for a character of set: the highest offset in a..b-1
\* that holds one, or -1.
RFind(s, set, a, b) ==
    IF \A p \in a..(b - 1) : s[p + 1] \notin set THEN 0 - 1
    ELSE CHOOSE p \in a..(b - 1) :
            s[p + 1] \in set /\ \A q \in (p + 1)..(b - 1) : s[q + 1] \notin set

\* The loop over '.!?' keeps the highest of the three rfind results.
LastPunct(text, search_start, end) ==
    Max2(Max2(RFind(text, {"."}, search_start, end), RFind(text, {"!"}, search_start, end)),
         RFind(text, {"?"}, search_start, end))

\* EndOf with the cut at start + max_size lost: the rest of the text is taken.
EndOfUncapped(text, start, max_size) == Len(text)

\* EndOf with the break point searched for in the whole slice, not only in
\* its last SearchWindow characters.
EndOfWholeSlice(text, start, max_size) ==
    LET end        == Min2(start + max_size, Len(text))
        last_punct == LastPunct(text, start, end)
        last_space == RFind(text, {" "}, start, end)
    IN IF end < Len(text)
       THEN IF last_punct # 0 - 1 THEN last_punct + 1
            ELSE IF last_space > start THEN last_space + 1
            ELSE end
       ELSE end

\* EndOf with the break point searched for in the final slice too.
EndOfFinalSearched(text, start, max_size) ==
    LET end          == Min2(start + max_size, Len(text))
        search_start == Max2(start, end - SearchWindow)
        last_punct   == LastPunct(text, search_start, end)
        last_space   == RFind(text, {" "}, search_start, end)
    IN IF last_punct # 0 - 1 THEN last_punct + 1
       ELSE IF last_space > start THEN last_space + 1
       ELSE end

\* EndOf with the break put before the punctuation found, not after it.
EndOfBeforePunct(text, start, max_size) ==
    LET end          == Min2(start + max_size, Len(text))
        search_start == Max2(start, end - SearchWindow)
        last_punct   == LastPunct(text, search_start, end)
        last_space   == RFind(text, {" "}, search_start, end)
    IN IF end < Len(text)
       THEN IF last_punct # 0 - 1 THEN last_punct
            ELSE IF last_space > start THEN last_space + 1
            ELSE end
       ELSE end

\* Where the piece that begins at start ends.
EndOf(text, start, max_size) ==
    LET end          == Min2(start + max_size, Len(text))
        search_start == Max2(start, end - SearchWindow)
        last_punct   == LastPunct(text, search_start, end)
        last_space   == RFind(text, {" "}, search_start, end)
    IN IF end < Len(text)
       THEN IF last_punct # 0 - 1 THEN last_punct + 1
            ELSE IF last_space > start THEN last_space + 1
            ELSE end
       ELSE end

\* Piece with the first character of the slice lost.
PieceCut(text, start, end) == Strip(Slice(text, start + 1, end))

\* text[start:end].strip()
Piece(text, start, end) == Strip(Slice(text, start, end))

\* IsSmall with the merge never taken.
IsSmallNever(chunks, chunk, min_size) == FALSE

\* IsSmall with a piece of exactly min_size characters merged too.
IsSmallOrEqual(chunks, chunk, min_size) ==
    chunks # <<>> /\ chunk # <<>> /\ Len(chunk) <= min_size

\* if chunks and chunk and len(chunk) < min_size
IsSmall(chunks, chunk, min_size) ==
    chunks # <<>> /\ chunk # <<>> /\ Len(chunk) < min_size

\* Merge with the separating space lost.
MergeNoSpace(last, chunk) == last \o chunk

\* Merge with the piece put in front of the chunk it is merged into.
MergeReversed(last, chunk) == chunk \o <<" ">> \o last

\* chunks[-1] += " " + chunk
Merge(last, chunk) == last \o <<" ">> \o chunk

\* The while loop of chunk_text from start on, chunks being the list so far.
RECURSIVE ChunkLoop(_, _, _, _, _)
ChunkLoop(text, max_size, min_size, start, chunks) ==
    IF start >= Len(text) THEN chunks
    ELSE LET end   == EndOf(text, start, max_size)
             chunk == Piece(text, start, end)
         IN ChunkLoop(text, max_size, min_size, end,
                      IF IsSmall(chunks, chunk, min_size)
                      THEN [chunks EXCEPT ![Len(chunks)] = Merge(@, chunk)]
                      ELSE IF chunk # <<>> THEN Append(chunks, chunk)
                      ELSE chunks)

chunk_text(text, max_size, min_size) == ChunkLoop(text, max_size, min_size, 0, <<>>)

(***************************************************************************)
(* fix_cloze_formatting                                                    *)
(***************************************************************************)
\* \{{1,2}\s*c(\d+)\s*::\s*(.*?)\s*(?:::\s*(.*?)\s*)?\}\}{1,2}
pattern ==
    << Rep({"{"}, 1, 2), Star(Whitespace), Fix(<<{"c"}>>), PlusCap(Digits, 1),
       Star(Whitespace), Fix(<<{":"}, {":"}>>), Star(Whitespace),
       LazyCap(Newline, 2), Star(Whitespace),
       Opt(<< Fix(<<{":"}, {":"}>>), Star(Whitespace), LazyCap(Newline, 3),
              Star(Whitespace) >>),
       Fix(<<{"}"}>>), Rep({"}"}, 1, 2) >>

\* \{c(\d+)::(.*?)\}
fallback_pattern ==
    << Fix(<<{"{"}, {"c"}>>), PlusCap(Digits, 1), Fix(<<{":"}, {":"}>>),
       LazyCap(Newline, 2), Fix(<<{"}"}>>) >>

\* What replace_match emits for the index, the answer and the hint of a match:
\* strip first, then drop the braces.  A hint that is absent or empty is
\* not emitted.
EmittedNum(s, m) == Strip(Group(s, m, 1))

EmittedAnswer(s, m) == RemoveBraces(Strip(Group(s, m, 2)))

HintOf(s, m) == IF HasGroup(m, 3) THEN Group(s, m, 3) ELSE <<>>

EmittedHint(s, m) == RemoveBraces(Strip(HintOf(s, m)))

replace_match(s, m) ==
    IF HintOf(s, m) # <<>>
    THEN <<"{", "{", "c">> \o EmittedNum(s, m) \o <<":", ":">> \o EmittedAnswer(s, m)
         \o <<":", ":">> \o EmittedHint(s, m) \o <<"}", "}">>
    ELSE <<"{", "{", "c">> \o EmittedNum(s, m) \o <<":", ":">> \o EmittedAnswer(s, m)
         \o <<"}", "}">>

\* r'{{c\1::\2}}'
fallback_template(s, m) ==
    <<"{", "{", "c">> \o Group(s, m, 1) \o <<":", ":">> \o Group(s, m, 2) \o <<"}", "}">>

\* pattern.sub(replace_match, s)
SubPattern(s) ==
    LET ms == FindAll(pattern, s)
    IN Join([k \in 1..Len(ms) |-> Gap(s, ms, k) \o replace_match(s, ms[k])], 1, Len(ms))
       \o Rest(s, ms)

\* re.sub(r'\{c(\d+)::(.*?)\}', r'{{c\1::\2}}', s)
SubFallback(s) ==
    LET ms == FindAll(fallback_pattern, s)
    IN Join([k \in 1..Len(ms) |-> Gap(s, ms, k) \o fallback_template(s, ms[k])], 1, Len(ms))
       \o Rest(s, ms)

FallbackApplies(c) ==
    /\ ~Contains(c, <<"{", "{">>) /\ ~Contains(c, <<"}", "}">>)
    /\ Contains(c, <<"{", "c">>) /\ Contains(c, <<":", ":">>) /\ Contains(c, <<"}">>)

fix_cloze_formatting(card) ==
    LET corrected_card == SubPattern(card)
    IN IF FallbackApplies(corrected_card)
       THEN SubPattern(SubFallback(corrected_card))
       ELSE corrected_card

\* The answer and the hint emitted for every marker fix_cloze_formatting
\* rewrites in card: the matches of the main pattern, in the card itself or,
\* when the fallback runs, in the card the fallback substitution leaves.
Rewritten(s) ==
    LET ms == FindAll(pattern, s)
    IN [k \in 1..Len(ms) |->
          [num |-> EmittedNum(s, ms[k]), answer |-> EmittedAnswer(s, ms[k]),
           hinted |-> HintOf(s, ms[k]) # <<>>, hint |-> EmittedHint(s, ms[k])]]

Emitted(card) ==
    LET corrected_card == SubPattern(card)
    IN IF FallbackApplies(corrected_card)
       THEN Rewritten(SubFallback(corrected_card))
       ELSE Rewritten(card)

(***************************************************************************)
(* get_anki_cards_for_chunk and get_interactive_questions_for_chunk.       *)
(* What the API does is the input of the model: resp.outcome says how the  *)
(* call ended and what the response text held,                             *)
(*   "no_key"     : no API key is configured, no request is sent           *)
(*   "raises"     : the request or the handling of the response raises     *)
(*   "no_array"   : the response text holds no [...]                       *)
(*   "bad_json"   : json.loads fails on the extracted text                 *)
(*   "bad_type"   : the JSON value is not a list                           *)
(*   "list"       : the JSON value is the list resp.items; resp.isstr[k]   *)
(*                  says whether its k-th element is a str, and            *)
(*                  resp.items[k] is then that string                      *)
(* Each adapter returns [] in every case but the last.                     *)
(***************************************************************************)
Failures == {"no_key", "raises", "no_array", "bad_json", "bad_type"}

\* card and card.strip()
NonBlank(c) == Strip(c) # <<>>

\* all(isinstance(item, str) for item in cards)
AllStr(resp) == \A k \in DOMAIN resp.isstr : resp.isstr[k]

\* get_anki_cards_for_chunk with the elements that are no strings dropped
\* and the strings kept.
get_anki_cards_of_strings(resp) ==
    IF resp.outcome = "list"
    THEN LET kept == SelectSeq([k \in 1..Len(resp.items) |->
                                   IF resp.isstr[k] THEN resp.items[k] ELSE <<>>], NonBlank)
         IN [k \in 1..Len(kept) |-> fix_cloze_formatting(kept[k])]
    ELSE <<>>

get_anki_cards_for_chunk(resp) ==
    IF resp.outcome = "list" /\ AllStr(resp)
    THEN LET kept == SelectSeq(resp.items, NonBlank)
         IN [k \in 1..Len(kept) |-> fix_cloze_formatting(kept[k])]
    ELSE <<>>

Range(f) == {f[k] : k \in DOMAIN f}

\* ValidQuestionAnyAnswer is ValidQuestion without the check of correctAnswer
\* against the options.
\* A question is kept when it is an object with a non-blank "question"
\* string, an "options" list of at least two and a "correctAnswer" string
\* that is one of the options.  typed stands for the isinstance and key
\* checks.
ValidQuestionAnyAnswer(q) ==
    /\ q.typed
    /\ Strip(q.question) # <<>>
    /\ Len(q.options) >= 2

ValidQuestion(q) ==
    /\ q.typed
    /\ Strip(q.question) # <<>>
    /\ Len(q.options) >= 2
    /\ q.correctAnswer \in Range(q.options)

get_interactive_questions_for_chunk(resp) ==
    IF resp.outcome = "list" THEN SelectSeq(resp.items, ValidQuestion) ELSE <<>>

\* not s or s.isspace()
IsBlank(t) == t = <<>> \/ \A p \in 1..Len(t) : t[p] \in Whitespace

\* The for loop goes on to the next chunk whatever the adapter returned.
\* NextChunkUnlessEmpty leaves the loop when a chunk gave nothing.
NextChunkUnlessEmpty(i, total_chunks, from_chunk) ==
    IF from_chunk = <<>> THEN total_chunks + 1 ELSE i + 1

\* NextChunkRetry submits a chunk again when it gave nothing.
NextChunkRetry(i, total_chunks, from_chunk) == IF from_chunk = <<>> THEN i ELSE i + 1

NextChunkIndex(i, total_chunks, from_chunk) == i + 1

\* all_cards.extend(cards_from_chunk); ExtendFront puts the new cards first.
ExtendFront(all, from_chunk) == from_chunk \o all

Extend(all, from_chunk) == all \o from_chunk

\* all_cards is a local of the call: every run accumulates into a list of
\* its own.  AccumulatorShared is one list for all runs, as a list at module
\* level would be.
AccumulatorShared(r) == "r1"

Accumulator(r) == r

\* The message get_anki_cards_for_chunk flashes for a response, if any.
CardFlashes(resp) ==
    IF resp.outcome = "no_key" THEN <<"error: OpenAI API key is missing">>
    ELSE IF resp.outcome = "raises" THEN <<"error: communicating with the AI for a chunk">>
    ELSE IF resp.outcome = "no_array" THEN <<"error: failed to extract card data structure">>
    ELSE IF resp.outcome = "bad_json" THEN <<"error: failed to parse AI response for a chunk">>
    ELSE IF resp.outcome = "bad_type" \/ (resp.outcome = "list" /\ ~AllStr(resp))
         THEN <<"error: not a list of strings">>
    ELSE <<>>

\* The message get_interactive_questions_for_chunk flashes for a response.
QuestionFlashes(resp) ==
    IF resp.outcome = "no_key" THEN <<"error: OpenAI API key is missing">>
    ELSE IF resp.outcome = "raises" THEN <<"error: communicating with the AI for questions">>
    ELSE IF resp.outcome = "no_array" THEN <<"error: failed to extract question data structure">>
    ELSE IF resp.outcome = "bad_json" THEN <<"error: failed to parse AI response for questions">>
    ELSE IF resp.outcome = "bad_type" THEN <<"error: not a list">>
    ELSE IF get_interactive_questions_for_chunk(resp) # resp.items
         THEN <<"warning: skipped invalid questions">>
    ELSE <<>>

\* What get_all_* flashes when it returns: a warning when chunks were
\* processed and gave nothing.
ReturnFlashes(md, items, total_chunks) ==
    IF items = <<>> /\ total_chunks > 0
    THEN IF md = "cards" THEN <<"warning: no Anki cards could be generated">>
         ELSE <<"warning: no interactive questions could be generated">>
    ELSE <<>>

(***************************************************************************)
(* Cards given to fix_cloze_formatting.                                    *)
(*   TokenCards  : every string of at most MaxTokens tokens                *)
(*   MarkerCards : text with one or two cloze markers, each written with   *)
(*                 one or two opening braces, one or two closing braces,   *)
(*                 optional blanks and an optional hint                    *)
(***************************************************************************)
MaxTokens == 4

Tokens == { <<"{">>, <<"}">>, <<"{", "c", "1", ":", ":">>, <<"}", "}">>,
            <<":", ":">>, <<" ">>, <<"a">>,
            <<"{", "{", "c", "1", ":", ":", "a", "}", "}">> }

RECURSIVE Flatten(_)
Flatten(ts) == IF ts = <<>> THEN <<>> ELSE Head(ts) \o Flatten(Tail(ts))

TokenCards == { Flatten(ts) : ts \in UNION { [1..n -> Tokens] : n \in 0..MaxTokens } }

Opening == { <<"{">>, <<"{", "{">> }
Closing == { <<"}">>, <<"}", "}">> }
Blank   == { <<>>, <<" ">> }
Answers == { <<"a">>, <<"a", " ", "b">> }
Hints   == { <<>>, <<"h">> }
Leads   == { <<>>, <<"Q", "?", "<", "b", "r", ">">> }
Break   == <<" ", "<", "b", "r", ">", " ">>

\* One marker as the card's author writes it, and the same marker in
\* canonical form.
Written(o, w, num, answer, hint, c) ==
    o \o w \o <<"c">> \o num \o w \o <<":", ":">> \o w \o answer \o w
      \o (IF hint = <<>> THEN <<>> ELSE <<":", ":">> \o w \o hint \o w) \o c

Canonical(num, answer, hint) ==
    <<"{", "{", "c">> \o num \o <<":", ":">> \o answer
      \o (IF hint = <<>> THEN <<>> ELSE <<":", ":">> \o hint) \o <<"}", "}">>

Markers(num) ==
    { [written |-> Written(o, w, num, a, h, c), canonical |-> Canonical(num, a, h)] :
        o \in Opening, w \in Blank, a \in Answers, h \in Hints, c \in Closing }

NoMarker == [written |-> <<>>, canonical |-> <<>>]

MarkerCards ==
    { [card  |-> lead \o m1.written \o (IF m2 = NoMarker THEN <<>> ELSE Break) \o m2.written,
       canon |-> lead \o m1.canonical \o (IF m2 = NoMarker THEN <<>> ELSE Break) \o m2.canonical] :
        lead \in Leads, m1 \in Markers(<<"1">>), m2 \in Markers(<<"2">>) \cup {NoMarker} }

(***************************************************************************)
(* State.                                                                  *)
(***************************************************************************)
VARIABLES
    card,            \* the string given to fix_cloze_formatting
    canon,           \* for a card of MarkerCards, the card with canonical markers
    family,          \* "tokens" or "markers": how card was drawn
    pcz,             \* "idle", "input", "fixed", "refixed"
    corrected_card,  \* fix_cloze_formatting(card)
    emitted,         \* what replace_match emitted for each rewritten marker
    refixed,         \* fix_cloze_formatting(corrected_card)
    text,            \* chunk_text: the text to split
    max_size,        \* chunk_text: max_size
    min_size,        \* chunk_text: min_size
    start,           \* chunk_text: start
    chunks,          \* chunk_text: chunks
    merges,          \* for every chunk, the number of pieces merged into it
    pck,             \* "idle", "loop", "returned"
    transcript,      \* get_all_*: the transcript
    mode,            \* "cards" (get_all_anki_cards) or "questions"
    max_chunk_size,  \* get_all_*: max_chunk_size
    pc,              \* "idle", "request", "start", "clean", "split", "each", "done",
                     \* "responded"; "ask", "asked", "parse", "parsed" for one adapter alone
    cleaned_transcript,
    i,               \* index of the chunk the for loop is at
    all_cards,       \* get_all_anki_cards: all_cards
    all_questions,   \* get_all_interactive_questions: all_questions
    calls,           \* every call of a per-chunk adapter: chunk, outcome, returned
    result,          \* what get_all_* returned
    openai_api_key,  \* whether OPENAI_API_KEY was set when the module was loaded
    response,        \* what the API answered to the last adapter call
    form,            \* /generate: the form of the request, NoForm for a direct call
    http,            \* /generate: the response of the handler
    flashed,         \* the messages flashed so far, in the order of the flash calls
    req,             \* concurrent requests: the locals of each request's run
    acc,             \* concurrent requests: the all_cards list of each run
    served,          \* concurrent requests: the adapter calls in the order made
    body,            \* /download_apkg: the request (is_json and the JSON value sent)
    pcd,             \* /download_apkg: "idle", "request", "notes", "write", "send",
                     \* "after", "done"
    notes,           \* /download_apkg: the Text field of the notes of the deck
    temp_file,       \* /download_apkg: "none", "exists" or "removed"
    status,          \* /download_apkg: the status code answered, 0 before
    interactiveCards,          \* review page: the exportText of every card
    currentIndex,              \* review page
    savedCards,                \* review page: the array savedCards refers to
    arrays,                    \* review page: the arrays made so far, by reference
    historyStack,              \* review page: index, saved (a reference), finishedState, view
    finished,                  \* review page: window.finished
    viewMode,                  \* review page: "idle", "card", "saved", "finished"
    savedCardIndexBeforeCart,  \* review page: an index, or Null
    before,                    \* for every snapshot of historyStack, the values of currentIndex,
                               \* savedCards, finished and viewMode when it was pushed
    questions,             \* quiz page: the correctAnswer of every question
    currentQuestionIndex,  \* quiz page
    score,                 \* quiz page
    timerInterval,         \* quiz page: whether the interval of startTimer is set
    timeLeft,              \* quiz page
    buttons,               \* quiz page: "none", "enabled" or "disabled": the option buttons
    advance,               \* quiz page: the timeouts of handleAnswerSelection that are pending
    screen,                \* quiz page: "idle", "question" or "end"
    answered               \* quiz page: for every call of handleAnswerSelection, the question
                           \* index and the option selected (Null for the timer)

clozeVars == <<card, canon, family, pcz, corrected_card, emitted, refixed>>

chunkVars == <<text, max_size, min_size, start, chunks, merges, pck>>

runVars == <<transcript, mode, max_chunk_size, pc, cleaned_transcript, i, all_cards,
             all_questions, calls, result>>

apiVars == <<openai_api_key, response>>

webVars == <<form, http, flashed>>

concVars == <<req, acc, served>>

apkgVars == <<body, pcd, notes, temp_file, status>>

reviewVars == <<interactiveCards, currentIndex, savedCards, arrays, historyStack, finished,
                viewMode, savedCardIndexBeforeCart, before>>

gameVars == <<questions, currentQuestionIndex, score, timerInterval, timeLeft, buttons,
              advance, screen, answered>>

pageVars == <<apkgVars, reviewVars, gameVars>>

pipelineVars == <<clozeVars, chunkVars, runVars, apiVars, webVars, concVars>>

vars == <<pipelineVars, pageVars>>

\* No card is being normalised.
ClozeIdle ==
    /\ card = <<>>
    /\ canon = <<>>
    /\ family = "tokens"
    /\ pcz = "idle"
    /\ corrected_card = <<>>
    /\ emitted = <<>>
    /\ refixed = <<>>

\* No text is being split.
ChunkIdle ==
    /\ text = <<>>
    /\ max_size = 1
    /\ min_size = 0
    /\ start = 0
    /\ chunks = <<>>
    /\ merges = <<>>
    /\ pck = "idle"

\* No transcript is being processed.
RunIdle ==
    /\ transcript = <<>>
    /\ mode = "cards"
    /\ max_chunk_size = 1
    /\ pc = "idle"
    /\ cleaned_transcript = <<>>
    /\ i = 0
    /\ all_cards = <<>>
    /\ all_questions = <<>>
    /\ calls = <<>>
    /\ result = <<>>

NoResponse == [outcome |-> "none", items |-> <<>>, isstr |-> <<>>]

\* No adapter has called the API.
ApiIdle ==
    /\ openai_api_key = TRUE
    /\ response = NoResponse

NoForm == [transcript |-> <<>>, max_size |-> <<>>, mode |-> "none"]

NoHttp == [kind |-> "none", to |-> "none", caught |-> FALSE]

\* No request is at /generate.
WebIdle ==
    /\ form = NoForm
    /\ http = NoHttp
    /\ flashed = <<>>

\* No requests run side by side.
ConcIdle ==
    /\ req = <<>>
    /\ acc = <<>>
    /\ served = <<>>

NoBody == [is_json |-> FALSE, kind |-> "none", has_key |-> FALSE, is_list |-> FALSE,
           items |-> <<>>, isstr |-> <<>>]

\* No request is at /download_apkg.
ApkgIdle ==
    /\ body = NoBody
    /\ pcd = "idle"
    /\ notes = <<>>
    /\ temp_file = "none"
    /\ status = 0

Null == 0 - 1

\* No review page is open.
ReviewIdle ==
    /\ interactiveCards = <<>>
    /\ currentIndex = 0
    /\ savedCards = 1
    /\ arrays = << <<>> >>
    /\ historyStack = <<>>
    /\ finished = FALSE
    /\ viewMode = "idle"
    /\ savedCardIndexBeforeCart = Null
    /\ before = <<>>

\* No quiz page is open.
GameIdle ==
    /\ questions = <<>>
    /\ currentQuestionIndex = 0
    /\ score = 0
    /\ timerInterval = FALSE
    /\ timeLeft = 0
    /\ buttons = "none"
    /\ advance = 0
    /\ screen = "idle"
    /\ answered = <<>>

PagesIdle == ApkgIdle /\ ReviewIdle /\ GameIdle

InitCloze ==
    /\ \/ /\ card \in TokenCards
          /\ canon = <<>>
          /\ family = "tokens"
       \/ \E mc \in MarkerCards :
            /\ card = mc.card
            /\ canon = mc.canon
            /\ family = "markers"
    /\ pcz = "input"
    /\ corrected_card = <<>>
    /\ emitted = <<>>
    /\ refixed = <<>>
    /\ ChunkIdle
    /\ RunIdle
    /\ ApiIdle
    /\ WebIdle
    /\ ConcIdle
    /\ PagesIdle

\* fix_cloze_formatting(card)
Normalize ==
    /\ pcz = "input"
    /\ corrected_card' = fix_cloze_formatting(card)
    /\ emitted' = Emitted(card)
    /\ pcz' = "fixed"
    /\ UNCHANGED <<card, canon, family, refixed, chunkVars, runVars,
                   apiVars, webVars, concVars, pageVars>>

\* fix_cloze_formatting applied to its own result
NormalizeAgain ==
    /\ pcz = "fixed"
    /\ refixed' = fix_cloze_formatting(corrected_card)
    /\ pcz' = "refixed"
    /\ UNCHANGED <<card, canon, family, corrected_card, emitted, chunkVars, runVars,
                   apiVars, webVars, concVars, pageVars>>

NextCloze == Normalize \/ NormalizeAgain

SpecCloze == InitCloze /\ [][NextCloze]_vars

(***************************************************************************)
(* Texts given to chunk_text: every string of at most MaxTextLen           *)
(* characters of Alphabet with sizes up to MaxMaxSize and MaxMinSize, and  *)
(* texts longer than the search window with sizes around it.               *)
(***************************************************************************)
MaxTextLen == 6

MaxMaxSize == 3

MaxMinSize == 3

Alphabet == {"a", ".", " "}

ShortTexts == UNION { [1..n -> Alphabet] : n \in 0..MaxTextLen }

Run(c, n) == [k \in 1..n |-> c]

LongTexts ==
    { <<"a", ".", " ">> \o Run("b", SearchWindow + 2) \o tail :
        tail \in { <<" ", "c", ".">>, <<"!", " ", "c", "c", " ", "c">>, Run("b", 9) } }

InitChunk ==
    /\ \/ /\ text \in ShortTexts
          /\ max_size \in 1..MaxMaxSize
          /\ min_size \in 0..MaxMinSize
       \/ /\ text \in LongTexts
          /\ max_size \in {SearchWindow - 1, SearchWindow + 1, SearchWindow + 4}
          /\ min_size \in {0, 4, DefaultMinSize}
    /\ start = 0
    /\ chunks = <<>>
    /\ merges = <<>>
    /\ pck = "loop"
    /\ ClozeIdle
    /\ RunIdle
    /\ ApiIdle
    /\ WebIdle
    /\ ConcIdle
    /\ PagesIdle

\* One iteration of chunk_text's while loop.
ChunkStep ==
    /\ pck = "loop"
    /\ start < Len(text)
    /\ LET end   == EndOf(text, start, max_size)
           chunk == Piece(text, start, end)
       IN /\ IF IsSmall(chunks, chunk, min_size)
             THEN /\ chunks' = [chunks EXCEPT ![Len(chunks)] = Merge(@, chunk)]
                  /\ merges' = [merges EXCEPT ![Len(merges)] = @ + 1]
             ELSE IF chunk # <<>>
             THEN /\ chunks' = Append(chunks, chunk)
                  /\ merges' = Append(merges, 0)
             ELSE UNCHANGED <<chunks, merges>>
          /\ start' = end
    /\ UNCHANGED <<text, max_size, min_size, pck, clozeVars, runVars,
                   apiVars, webVars, concVars, pageVars>>

\* The loop ends and chunk_text returns chunks.
ChunkReturn ==
    /\ pck = "loop"
    /\ start >= Len(text)
    /\ pck' = "returned"
    /\ UNCHANGED <<text, max_size, min_size, start, chunks, merges, clozeVars, runVars,
                   apiVars, webVars, concVars, pageVars>>

NextChunk == ChunkStep \/ ChunkReturn

SpecChunk == InitChunk /\ [][NextChunk]_vars

\* The calls of InitChunk with, for the short texts, the smallest min_size
\* that merges and the largest.
InitChunkFair == InitChunk /\ (text \in ShortTexts => min_size \in {1, MaxMinSize})

\* chunk_text is sequential code: an iteration that can be made is made.
SpecChunkFair == InitChunkFair /\ [][NextChunk]_vars /\ WF_vars(NextChunk)

(***************************************************************************)
(* get_all_anki_cards and get_all_interactive_questions.                   *)
(* Transcripts: empty and blank ones, ones that hold only what             *)
(* preprocess_transcript removes, and a header followed by up to           *)
(* MaxSentences sentences, long enough for one, two and three chunks of    *)
(* ChunkSize characters.                                                   *)
(***************************************************************************)
MaxSentences == 39

ChunkSize == 220

DefaultMaxChunkSize == 8000

MaxItems == 2

BlankTranscripts == { <<>>, <<" ">>, <<"\n", "\t", " ">> }

HeadersOnly ==
    { <<"W", "E", "B", "V", "T", "T", "\n", "\n">>,
      <<"N", "O", "T", "E", " ", "x", "\n">>,
      <<"0", "0", ":", "0", "1">>,
      <<"B", "o", "b", ":", " ">>,
      <<"1", "2">>,
      <<"1", "\n", "0", "0", ":", "0", "0", ":", "0", "1", ",", "0", "0", "0", " ",
        "-", "-", ">", " ", "0", "0", ":", "0", "0", ":", "0", "2", ",", "0", "0", "0",
        "\n">> }

Header == <<"W", "E", "B", "V", "T", "T", "\n", "\n", "0", ":", "0", "1", " ",
            "A", "m", "y", ":", " ">>

Sentence == <<"i", "t", " ", "i", "s", " ", "s", "o", ".", " ", "a", "n", "d", " ",
              "o", "n", " ">>

RECURSIVE Times(_, _)
Times(u, n) ==
    IF n = 0 THEN <<>>
    ELSE IF n = 1 THEN u
    ELSE Times(u, n \div 2) \o Times(u, n - n \div 2)

LongTranscripts ==
    { Header \o Times(Sentence, n) :
        n \in {MaxSentences \div 3, (2 * MaxSentences) \div 3, MaxSentences} }

Transcripts == BlankTranscripts \cup HeadersOnly \cup LongTranscripts

Lists(S) == UNION { [1..n -> S] : n \in 0..MaxItems }

RawCards == { <<" ">>, <<"{", "c", "1", ":", ":", "a", "}">>,
              <<"{", "{", "c", "2", ":", ":", "b", "}", "}", ".">> }

RawQuestions ==
    { [typed |-> TRUE, question |-> <<"q">>, options |-> <<"x", "y">>, correctAnswer |-> "x"],
      [typed |-> TRUE, question |-> <<"r">>, options |-> <<"x", "y">>, correctAnswer |-> "y"],
      [typed |-> TRUE, question |-> <<"q">>, options |-> <<"x", "y">>, correctAnswer |-> "z"],
      [typed |-> TRUE, question |-> <<" ">>, options |-> <<"x">>, correctAnswer |-> "x"],
      [typed |-> FALSE, question |-> <<"q">>, options |-> <<"x", "y">>, correctAnswer |-> "x"] }

Responses(S) ==
    { [outcome |-> o, items |-> <<>>, isstr |-> <<>>] : o \in Failures }
        \cup { [outcome |-> "list", items |-> items, isstr |-> [k \in DOMAIN items |-> TRUE]] :
                 items \in Lists(S) }

(***************************************************************************)
(* The /generate handler.  A request's form holds the transcript, the      *)
(* max_size field as the string the browser sent and the mode ("Generate   *)
(* Game" or "Generate Anki Cards").  The forms drawn hold an empty and a   *)
(* blank transcript, a transcript of timestamps only, and a transcript of  *)
(* FormSentences sentences, long enough for two chunks of LowestMaxSize    *)
(* characters; their max_size is a number in range (one of them after a    *)
(* blank), a number below or above the range, a negative number or not a   *)
(* number.                                                                 *)
(***************************************************************************)
LowestMaxSize == 1000

HighestMaxSize == 16000

FallbackMaxSize == 8000

FormSentences == 80

FormTranscripts ==
    { <<>>,
      <<" ", "\n">>,
      <<" ", "[", "0", "0", ":", "0", "1", "]", "\n">>,
      <<" ">> \o Header \o Times(Sentence, FormSentences) \o <<"\n">> }

MaxSizeStrings ==
    { <<"1", "0", "0", "0">>, <<"9", "9", "9">>, <<"x">>, <<"1", "6", "0", "0", "1">>,
      <<" ", "2", "0", "0", "0">>, <<"-", "1", "0", "0", "0">> }

Forms ==
    { [transcript |-> t, max_size |-> sz, mode |-> md] :
        t \in FormTranscripts, sz \in MaxSizeStrings,
        md \in {"Generate Game", "Generate Anki Cards"} }

\* int(max_size_str): blanks at both ends and one sign are accepted, the rest
\* must be decimal digits (none of the strings drawn holds an underscore);
\* any other string makes int raise ValueError.
Unsigned(str) ==
    IF Strip(str) # <<>> /\ Head(Strip(str)) \in {"+", "-"} THEN Tail(Strip(str))
    ELSE Strip(str)

IsInt(str) == Unsigned(str) # <<>> /\ \A p \in 1..Len(Unsigned(str)) : Unsigned(str)[p] \in Digits

DigitValue(c) == CHOOSE n \in 0..9 : <<"0", "1", "2", "3", "4", "5", "6", "7", "8", "9">>[n + 1] = c

RECURSIVE Decimal(_)
Decimal(ds) ==
    IF ds = <<>> THEN 0
    ELSE 10 * Decimal(SubSeq(ds, 1, Len(ds) - 1)) + DigitValue(ds[Len(ds)])

IntOf(str) ==
    IF Head(Strip(str)) = "-" THEN 0 - Decimal(Unsigned(str)) ELSE Decimal(Unsigned(str))

\* MaxSizeOf without the test of the range.
MaxSizeOfUnchecked(str) == IF IsInt(str) THEN IntOf(str) ELSE FallbackMaxSize

\* max_size = int(max_size_str), 8000 when int raises or the value is not in
\* 1000..16000
MaxSizeOf(str) ==
    IF IsInt(str) /\ IntOf(str) >= LowestMaxSize /\ IntOf(str) <= HighestMaxSize
    THEN IntOf(str)
    ELSE FallbackMaxSize

\* The warning flashed when max_size falls back to 8000.
MaxSizeFlashes(str) ==
    IF IsInt(str) /\ IntOf(str) >= LowestMaxSize /\ IntOf(str) <= HighestMaxSize
    THEN <<>>
    ELSE <<"warning: invalid max chunk size, using default 8000">>

RedirectToIndex(caught) == [kind |-> "redirect", to |-> "index", caught |-> caught]

Render(template) == [kind |-> "render", to |-> template, caught |-> FALSE]

\* Responds with the check of the empty result lost.
RespondsAlwaysRender(md, items) ==
    Render(IF md = "questions" THEN "INTERACTIVE_HTML" ELSE "ANKI_HTML")

\* What generate answers once get_all_* has returned items.  With an empty
\* list the handler calls get_flashed_messages, a name the module never
\* imports: the NameError is caught by the handler's except branch, which
\* redirects to the index page.
Responds(md, items) ==
    IF items = <<>> THEN RedirectToIndex(TRUE)
    ELSE Render(IF md = "questions" THEN "INTERACTIVE_HTML" ELSE "ANKI_HTML")

\* What generate flashes once get_all_* has returned items: with an empty
\* list, the message of its except branch, since the test of
\* get_flashed_messages() raises NameError before the generic warning.
AnswerFlashes(md, items, msgs) ==
    IF items = <<>>
    THEN IF md = "questions" THEN <<"error: unexpected error generating the game: NameError">>
         ELSE <<"error: unexpected error generating Anki cards: NameError">>
    ELSE <<>>

\* A direct call of get_all_anki_cards or get_all_interactive_questions, or
\* a request that arrives at /generate.
Init ==
    /\ \/ /\ transcript \in Transcripts
          /\ mode \in {"cards", "questions"}
          /\ max_chunk_size \in {ChunkSize, DefaultMaxChunkSize}
          /\ pc = "start"
          /\ form = NoForm
       \/ /\ form \in Forms
          /\ transcript = <<>>
          /\ mode = "cards"
          /\ max_chunk_size = DefaultMaxChunkSize
          /\ pc = "request"
    /\ openai_api_key \in BOOLEAN
    /\ response = NoResponse
    /\ http = NoHttp
    /\ flashed = <<>>
    /\ cleaned_transcript = <<>>
    /\ i = 0
    /\ all_cards = <<>>
    /\ all_questions = <<>>
    /\ calls = <<>>
    /\ result = <<>>
    /\ ChunkIdle
    /\ ClozeIdle
    /\ ConcIdle
    /\ PagesIdle

\* generate, up to the call of get_all_*: the transcript is stripped and must
\* not be empty, max_size is read, the API key must be configured.
Generate ==
    /\ pc = "request"
    /\ IF Strip(form.transcript) = <<>>
       THEN /\ flashed' = Append(flashed, "error: transcript cannot be empty")
            /\ http' = RedirectToIndex(FALSE)
            /\ pc' = "responded"
            /\ UNCHANGED <<transcript, mode, max_chunk_size>>
       ELSE IF ~openai_api_key
       THEN /\ flashed' = flashed \o MaxSizeFlashes(form.max_size)
                              \o <<"error: AI service is not configured">>
            /\ http' = RedirectToIndex(FALSE)
            /\ pc' = "responded"
            /\ UNCHANGED <<transcript, mode, max_chunk_size>>
       ELSE /\ flashed' = flashed \o MaxSizeFlashes(form.max_size)
            /\ transcript' = Strip(form.transcript)
            /\ max_chunk_size' = MaxSizeOf(form.max_size)
            /\ mode' = IF form.mode = "Generate Game" THEN "questions" ELSE "cards"
            /\ pc' = "start"
            /\ UNCHANGED http
    /\ UNCHANGED <<cleaned_transcript, i, all_cards, all_questions, calls, result, form,
                   chunkVars, clozeVars, apiVars, concVars, pageVars>>

\* generate, once get_all_* has returned
Answer ==
    /\ pc = "done"
    /\ form # NoForm
    /\ http' = Responds(mode, result)
    /\ flashed' = flashed \o AnswerFlashes(mode, result, flashed)
    /\ pc' = "responded"
    /\ UNCHANGED <<transcript, mode, max_chunk_size, cleaned_transcript, i, all_cards,
                   all_questions, calls, result, form, chunkVars, clozeVars, apiVars,
                   concVars, pageVars>>

\* if not transcript or transcript.isspace(): return []
CheckTranscript ==
    /\ pc = "start"
    /\ IF IsBlank(transcript)
       THEN /\ flashed' = Append(flashed, "warning: transcript content is empty")
            /\ result' = <<>>
            /\ pc' = "done"
       ELSE /\ pc' = "clean"
            /\ UNCHANGED <<result, flashed>>
    /\ UNCHANGED <<transcript, mode, max_chunk_size, cleaned_transcript, i, all_cards,
                   all_questions, calls, chunkVars, clozeVars,
                   apiVars, form, http, concVars, pageVars>>

\* cleaned_transcript = preprocess_transcript(transcript); return [] when it
\* is empty, else enter chunk_text(cleaned_transcript, max_chunk_size).
Preprocess ==
    /\ pc = "clean"
    /\ cleaned_transcript' = preprocess_transcript(transcript)
    /\ IF cleaned_transcript' = <<>>
       THEN /\ flashed' = Append(flashed, "warning: transcript empty after cleaning")
            /\ result' = <<>>
            /\ pc' = "done"
            /\ UNCHANGED chunkVars
       ELSE /\ text' = cleaned_transcript'
            /\ max_size' = max_chunk_size
            /\ min_size' = DefaultMinSize
            /\ start' = 0
            /\ chunks' = <<>>
            /\ merges' = <<>>
            /\ pck' = "loop"
            /\ pc' = "split"
            /\ UNCHANGED <<result, flashed>>
    /\ UNCHANGED <<transcript, mode, max_chunk_size, i, all_cards, all_questions, calls,
                   clozeVars,
                   apiVars, form, http, concVars, pageVars>>

\* if not chunks: return []; else the for loop starts.
CheckChunks ==
    /\ pc = "split"
    /\ pck = "returned"
    /\ IF chunks = <<>>
       THEN /\ flashed' = Append(flashed, "error: failed to split transcript into chunks")
            /\ result' = <<>>
            /\ pc' = "done"
            /\ UNCHANGED i
       ELSE /\ i' = 1
            /\ pc' = "each"
            /\ UNCHANGED <<result, flashed>>
    /\ UNCHANGED <<transcript, mode, max_chunk_size, cleaned_transcript, all_cards,
                   all_questions, calls, chunkVars, clozeVars,
                   apiVars, form, http, concVars, pageVars>>

\* One iteration of get_all_anki_cards' for loop.
CardsForChunk ==
    /\ pc = "each"
    /\ mode = "cards"
    /\ i <= Len(chunks)
    /\ IF IsBlank(chunks[i])
       THEN /\ i' = i + 1
            /\ UNCHANGED <<all_cards, calls, response, flashed>>
       ELSE \E resp \in Responses(RawCards) :
              LET cards_from_chunk == get_anki_cards_for_chunk(resp)
              IN /\ (resp.outcome = "no_key") = ~openai_api_key
                 /\ response' = resp
                 /\ flashed' = flashed \o CardFlashes(resp)
                 /\ calls' = Append(calls, [chunk |-> i, outcome |-> resp.outcome,
                                            returned |-> cards_from_chunk])
                 /\ all_cards' = IF cards_from_chunk # <<>>
                                 THEN Extend(all_cards, cards_from_chunk)
                                 ELSE all_cards
                 /\ i' = NextChunkIndex(i, Len(chunks), cards_from_chunk)
    /\ UNCHANGED <<transcript, mode, max_chunk_size, pc, cleaned_transcript, all_questions,
                   result, chunkVars, clozeVars,
                   openai_api_key, form, http, concVars, pageVars>>

\* One iteration of get_all_interactive_questions' for loop.
QuestionsForChunk ==
    /\ pc = "each"
    /\ mode = "questions"
    /\ i <= Len(chunks)
    /\ IF IsBlank(chunks[i])
       THEN /\ i' = i + 1
            /\ UNCHANGED <<all_questions, calls, response, flashed>>
       ELSE \E resp \in Responses(RawQuestions) :
              LET questions_from_chunk == get_interactive_questions_for_chunk(resp)
              IN /\ (resp.outcome = "no_key") = ~openai_api_key
                 /\ response' = resp
                 /\ flashed' = flashed \o QuestionFlashes(resp)
                 /\ calls' = Append(calls, [chunk |-> i, outcome |-> resp.outcome,
                                            returned |-> questions_from_chunk])
                 /\ all_questions' = IF questions_from_chunk # <<>>
                                     THEN Extend(all_questions, questions_from_chunk)
                                     ELSE all_questions
                 /\ i' = NextChunkIndex(i, Len(chunks), questions_from_chunk)
    /\ UNCHANGED <<transcript, mode, max_chunk_size, pc, cleaned_transcript, all_cards,
                   result, chunkVars, clozeVars,
                   openai_api_key, form, http, concVars, pageVars>>

\* return all_cards / return all_questions
ReturnAll ==
    /\ pc = "each"
    /\ i > Len(chunks)
    /\ result' = IF mode = "cards" THEN all_cards ELSE all_questions
    /\ flashed' = flashed \o ReturnFlashes(mode, result', Len(chunks))
    /\ pc' = "done"
    /\ UNCHANGED <<transcript, mode, max_chunk_size, cleaned_transcript, i, all_cards,
                   all_questions, calls, chunkVars, clozeVars,
                   apiVars, form, http, concVars, pageVars>>

Next ==
    \/ CheckTranscript
    \/ Preprocess
    \/ ChunkStep
    \/ ChunkReturn
    \/ CheckChunks
    \/ CardsForChunk
    \/ QuestionsForChunk
    \/ ReturnAll
    \/ Generate
    \/ Answer

Spec == Init /\ [][Next]_vars

(***************************************************************************)
(* Two requests served side by side, each by a thread of its own, each     *)
(* running get_all_anki_cards.  A run's locals are req[r]; its all_cards   *)
(* list is acc[Accumulator(r)].  The steps of the two runs interleave at   *)
(* the adapter calls, where a run waits for the API.                       *)
(***************************************************************************)
Requests == {"r1", "r2"}

ConcTranscripts ==
    { <<" ">>, Header \o Times(Sentence, MaxSentences \div 3),
      Header \o Times(Sentence, (2 * MaxSentences) \div 3) }

\* The API raises, or answers with an array of one card.
ConcResponses ==
    { resp \in Responses(RawCards) :
        resp.outcome = "raises" \/ (resp.outcome = "list" /\ Len(resp.items) = 1) }

InitConc ==
    /\ req \in [Requests -> { [pc |-> "start", transcript |-> t, max_chunk_size |-> ChunkSize,
                               chunks |-> <<>>, i |-> 0, calls |-> <<>>, result |-> <<>>] :
                                t \in ConcTranscripts }]
    /\ acc = [r \in Requests |-> <<>>]
    /\ served = <<>>
    /\ ClozeIdle
    /\ ChunkIdle
    /\ RunIdle
    /\ ApiIdle
    /\ WebIdle
    /\ PagesIdle

\* get_all_anki_cards of request r up to its for loop
ConcStart(r) ==
    /\ req[r].pc = "start"
    /\ LET cleaned == IF IsBlank(req[r].transcript) THEN <<>>
                      ELSE preprocess_transcript(req[r].transcript)
           split   == IF cleaned = <<>> THEN <<>>
                      ELSE chunk_text(cleaned, req[r].max_chunk_size, DefaultMinSize)
       IN IF split = <<>>
          THEN /\ req' = [req EXCEPT ![r].pc = "done", ![r].result = <<>>]
               /\ UNCHANGED acc
          ELSE /\ req' = [req EXCEPT ![r].pc = "each", ![r].chunks = split, ![r].i = 1]
               /\ acc' = [acc EXCEPT ![Accumulator(r)] = <<>>]
    /\ UNCHANGED <<served, clozeVars, chunkVars, runVars, apiVars, webVars, pageVars>>

\* One iteration of the for loop of request r.
ConcCardsForChunk(r) ==
    /\ req[r].pc = "each"
    /\ req[r].i <= Len(req[r].chunks)
    /\ IF IsBlank(req[r].chunks[req[r].i])
       THEN /\ req' = [req EXCEPT ![r].i = @ + 1]
            /\ UNCHANGED <<acc, served>>
       ELSE \E resp \in ConcResponses :
              LET cards_from_chunk == get_anki_cards_for_chunk(resp)
              IN /\ served' = Append(served, <<r, req[r].i>>)
                 /\ acc' = [acc EXCEPT ![Accumulator(r)] =
                                IF cards_from_chunk # <<>>
                                THEN Extend(@, cards_from_chunk)
                                ELSE @]
                 /\ req' = [req EXCEPT
                              ![r].calls = Append(@, [chunk |-> req[r].i,
                                                      outcome |-> resp.outcome,
                                                      returned |-> cards_from_chunk]),
                              ![r].i = NextChunkIndex(@, Len(req[r].chunks),
                                                      cards_from_chunk)]
    /\ UNCHANGED <<clozeVars, chunkVars, runVars, apiVars, webVars, pageVars>>

\* return all_cards of request r
ConcReturn(r) ==
    /\ req[r].pc = "each"
    /\ req[r].i > Len(req[r].chunks)
    /\ req' = [req EXCEPT ![r].pc = "done", ![r].result = acc[Accumulator(r)]]
    /\ UNCHANGED <<acc, served, clozeVars, chunkVars, runVars, apiVars, webVars, pageVars>>

NextConc == \E r \in Requests : ConcStart(r) \/ ConcCardsForChunk(r) \/ ConcReturn(r)

SpecConc == InitConc /\ [][NextConc]_vars

(***************************************************************************)
(* get_interactive_questions_for_chunk alone: the API's response is drawn, *)
(* a failure or an array of at most MaxQuizItems objects, and the adapter  *)
(* is applied to it.                                                       *)
(***************************************************************************)
MaxQuizItems == 3

QuizResponses ==
    { [outcome |-> o, items |-> <<>>, isstr |-> <<>>] : o \in Failures }
        \cup { [outcome |-> "list", items |-> items, isstr |-> [k \in DOMAIN items |-> FALSE]] :
                 items \in UNION { [1..n -> RawQuestions] : n \in 0..MaxQuizItems } }

InitQuiz ==
    /\ openai_api_key \in BOOLEAN
    /\ response \in { resp \in QuizResponses : (resp.outcome = "no_key") = ~openai_api_key }
    /\ transcript = <<>>
    /\ mode = "questions"
    /\ max_chunk_size = 1
    /\ pc = "ask"
    /\ cleaned_transcript = <<>>
    /\ i = 0
    /\ all_cards = <<>>
    /\ all_questions = <<>>
    /\ calls = <<>>
    /\ result = <<>>
    /\ ChunkIdle
    /\ ClozeIdle
    /\ WebIdle
    /\ ConcIdle
    /\ PagesIdle

\* get_interactive_questions_for_chunk on the response drawn
AskQuestions ==
    /\ pc = "ask"
    /\ calls' = <<[chunk |-> 1, outcome |-> response.outcome,
                   returned |-> get_interactive_questions_for_chunk(response)]>>
    /\ pc' = "asked"
    /\ UNCHANGED <<transcript, mode, max_chunk_size, cleaned_transcript, i, all_cards,
                   all_questions, result, chunkVars, clozeVars, apiVars, webVars, concVars,
                   pageVars>>

NextQuiz == AskQuestions

SpecQuiz == InitQuiz /\ [][NextQuiz]_vars

(***************************************************************************)
(* get_anki_cards_for_chunk alone: the API's response is drawn, a failure  *)
(* or an array of at most MaxCardItems elements, each a string (empty,     *)
(* blank, or a card) or a value that is no string, and the adapter is      *)
(* applied to it.                                                          *)
(***************************************************************************)
MaxCardItems == 3

NotAString == <<"7">>

CardResponses ==
    { [outcome |-> o, items |-> <<>>, isstr |-> <<>>] : o \in Failures }
        \cup { [outcome |-> "list", items |-> items,
                  isstr |-> [k \in DOMAIN items |-> items[k] # NotAString]] :
                 items \in UNION { [1..n -> RawCards \cup {<<>>, NotAString}] :
                                     n \in 0..MaxCardItems } }

InitCards ==
    /\ openai_api_key \in BOOLEAN
    /\ response \in { resp \in CardResponses : (resp.outcome = "no_key") = ~openai_api_key }
    /\ transcript = <<>>
    /\ mode = "cards"
    /\ max_chunk_size = 1
    /\ pc = "parse"
    /\ cleaned_transcript = <<>>
    /\ i = 0
    /\ all_cards = <<>>
    /\ all_questions = <<>>
    /\ calls = <<>>
    /\ result = <<>>
    /\ ChunkIdle
    /\ ClozeIdle
    /\ WebIdle
    /\ ConcIdle
    /\ PagesIdle

\* get_anki_cards_for_chunk on the response drawn
AskCards ==
    /\ pc = "parse"
    /\ calls' = <<[chunk |-> 1, outcome |-> response.outcome,
                   returned |-> get_anki_cards_for_chunk(response)]>>
    /\ flashed' = flashed \o CardFlashes(response)
    /\ pc' = "parsed"
    /\ UNCHANGED <<transcript, mode, max_chunk_size, cleaned_transcript, i, all_cards,
                   all_questions, result, form, http, chunkVars, clozeVars, apiVars,
                   concVars, pageVars>>

NextCards == AskCards

SpecCards == InitCards /\ [][NextCards]_vars

(***************************************************************************)
(* chunk_text with sizes that leave room for the search window:            *)
(* max_size = min_size + SearchWindow + 1 for a small min_size and for the *)
(* default one, and the smallest max_size /generate passes with the        *)
(* default min_size.  The texts are cleaned texts of at most MaxWords      *)
(* words, each of min_size - 1, min_size, SearchWindow or max_size         *)
(* letters, with a space or a full stop and a space between two words.     *)
(***************************************************************************)
MaxWords == 3

SizePairs ==
    { <<mn + SearchWindow + 1, mn>> : mn \in {1, 2, DefaultMinSize} }
        \cup { <<LowestMaxSize, DefaultMinSize>> }

Separators == { <<" ">>, <<".", " ">> }

WordLengths(mx, mn) == {mn - 1, mn, SearchWindow, mx} \ {0}

SizedTexts(mx, mn) ==
    UNION { { Flatten([k \in 1..(2 * n - 1) |->
                          IF k % 2 = 1 THEN Run("a", ws[(k + 1) \div 2]) ELSE ss[k \div 2]]) :
                ws \in [1..n -> WordLengths(mx, mn)], ss \in [1..(n - 1) -> Separators] } :
            n \in 1..MaxWords }

InitSizes ==
    /\ \E sz \in SizePairs :
          /\ max_size = sz[1]
          /\ min_size = sz[2]
          /\ text \in SizedTexts(sz[1], sz[2])
    /\ start = 0
    /\ chunks = <<>>
    /\ merges = <<>>
    /\ pck = "loop"
    /\ ClozeIdle
    /\ RunIdle
    /\ ApiIdle
    /\ WebIdle
    /\ ConcIdle
    /\ PagesIdle

SpecSizes == InitSizes /\ [][NextChunk]_vars

(***************************************************************************)
(* The /download_apkg handler.  body.is_json is request.is_json; the JSON  *)
(* value sent is described by body.kind ("falsy" for null, 0, "", [] and   *)
(* {}, "number", "string" and "array" for other values that are no object, *)
(* "object"), body.has_key ("saved_cards" in data) and, for an object      *)
(* with that key, the value of the key: whether it is a list, its          *)
(* elements and which of them are strings.  What the file system and       *)
(* send_file do is drawn at every step that uses them.                     *)
(***************************************************************************)
MaxSavedCards == 3

SavedElements == RawCards \cup { <<>>, <<"a">>, NotAString }

Bodies ==
    { [is_json |-> FALSE, kind |-> "falsy", has_key |-> FALSE, is_list |-> FALSE,
       items |-> <<>>, isstr |-> <<>>] }
    \cup { [is_json |-> TRUE, kind |-> kd, has_key |-> hk, is_list |-> FALSE,
             items |-> <<>>, isstr |-> <<>>] :
             kd \in {"number", "string", "array", "object"}, hk \in BOOLEAN }
    \cup { [is_json |-> TRUE, kind |-> "falsy", has_key |-> FALSE, is_list |-> FALSE,
             items |-> <<>>, isstr |-> <<>>] }
    \cup { [is_json |-> TRUE, kind |-> "object", has_key |-> TRUE, is_list |-> TRUE,
             items |-> items, isstr |-> [k \in DOMAIN items |-> items[k] # NotAString]] :
             items \in UNION { [1..n -> SavedElements] : n \in 0..MaxSavedCards } }

\* The status the validation answers, 0 when the request passes.  A number
\* makes the test of the key raise TypeError, and so does the subscript
\* data["saved_cards"] of a string or an array that holds "saved_cards";
\* neither is inside a try block, so the request is answered 500.
Validation(b) ==
    IF ~b.is_json THEN 415
    ELSE IF b.kind = "falsy" THEN 400
    ELSE IF b.kind = "number" THEN 500
    ELSE IF ~b.has_key THEN 400
    ELSE IF b.kind # "object" THEN 500
    ELSE IF ~b.is_list \/ b.items = <<>> THEN 400
    ELSE IF \E k \in DOMAIN b.isstr : ~b.isstr[k] THEN 400
    ELSE 0

\* if not cleaned_card_text or not cleaned_card_text.strip(): continue
\* if "{{c" not in cleaned_card_text: continue
IsNote(cleaned_card_text) ==
    /\ NonBlank(cleaned_card_text)
    /\ Contains(cleaned_card_text, <<"{", "{", "c">>)

\* NotesOf with the test of "{{c" lost.
NotesOfNonBlank(saved_cards) ==
    SelectSeq([k \in 1..Len(saved_cards) |-> fix_cloze_formatting(saved_cards[k])], NonBlank)

\* The Text field of the notes the for loop adds to the deck.
NotesOf(saved_cards) ==
    SelectSeq([k \in 1..Len(saved_cards) |-> fix_cloze_formatting(saved_cards[k])], IsNote)

InitApkg ==
    /\ body \in Bodies
    /\ pcd = "request"
    /\ notes = <<>>
    /\ temp_file = "none"
    /\ status = 0
    /\ ClozeIdle
    /\ ChunkIdle
    /\ RunIdle
    /\ ApiIdle
    /\ WebIdle
    /\ ConcIdle
    /\ ReviewIdle
    /\ GameIdle

\* download_apkg up to the package: the validation and the notes.
DownloadApkg ==
    /\ pcd = "request"
    /\ IF Validation(body) # 0
       THEN /\ status' = Validation(body)
            /\ pcd' = "done"
            /\ UNCHANGED notes
       ELSE /\ notes' = NotesOf(body.items)
            /\ IF notes' = <<>>
               THEN status' = 400 /\ pcd' = "done"
               ELSE pcd' = "write" /\ UNCHANGED status
    /\ UNCHANGED <<body, temp_file, pipelineVars, reviewVars, gameVars>>

\* os.remove in an except branch or in remove_temp_file: the file is
\* removed, or os.remove raises, which is logged, and the file stays.
Removal(removes) == IF removes THEN "removed" ELSE "exists"

\* The with block: NamedTemporaryFile(delete=False) makes the file and
\* package.write_to_file writes it.  When either raises, the except branch
\* removes the file if it exists and answers 500.
WriteFile ==
    /\ pcd = "write"
    /\ \E outcome \in {"written", "not_created", "write_raises"}, removes \in BOOLEAN :
          /\ outcome # "write_raises" => removes
          /\ IF outcome = "written"
             THEN temp_file' = "exists" /\ pcd' = "send" /\ UNCHANGED status
             ELSE /\ temp_file' = IF outcome = "not_created" THEN "none" ELSE Removal(removes)
                  /\ status' = 500
                  /\ pcd' = "done"
    /\ UNCHANGED <<body, notes, pipelineVars, reviewVars, gameVars>>

\* send_file and the registration of remove_temp_file; when send_file
\* raises, the except branch removes the file and answers 500.
SendFile ==
    /\ pcd = "send"
    /\ \E sent \in BOOLEAN, removes \in BOOLEAN :
          /\ sent => removes
          /\ IF sent
             THEN status' = 200 /\ pcd' = "after" /\ UNCHANGED temp_file
             ELSE status' = 500 /\ pcd' = "done" /\ temp_file' = Removal(removes)
    /\ UNCHANGED <<body, notes, pipelineVars, reviewVars, gameVars>>

\* remove_temp_file, run by after_this_request once the view has returned
RemoveTempFile ==
    /\ pcd = "after"
    /\ \E removes \in BOOLEAN : temp_file' = Removal(removes)
    /\ pcd' = "done"
    /\ UNCHANGED <<body, notes, status, pipelineVars, reviewVars, gameVars>>

NextApkg == DownloadApkg \/ WriteFile \/ SendFile \/ RemoveTempFile

SpecApkg == InitApkg /\ [][NextApkg]_vars

(***************************************************************************)
(* The review page (script of ANKI_HTML) once initialize has run.  A card  *)
(* is its exportText; the cards of one note share it.  A JavaScript array  *)
(* is a reference: arrays holds every array made, savedCards and the       *)
(* saved field of a snapshot are indices into it.  currentIndex counts     *)
(* from 0 as in the script.  The page is followed until MaxArrays arrays   *)
(* have been made.                                                         *)
(***************************************************************************)
MaxCards == 3

MaxArrays == 4

ExportTexts == {"x", "y"}

\* saved: savedCards without slice(): the snapshot refers to the array
\* that later saves push to.
SnapshotAliased(index, arrs, ref, fin, view) ==
    [index |-> index, saved |-> ref, finishedState |-> fin, view |-> view]

\* {index: currentIndex, saved: savedCards.slice(), finishedState:
\* window.finished, view: viewMode}; the copy is the array made last.
Snapshot(index, arrs, ref, fin, view) ==
    [index |-> index, saved |-> Len(arrs) + 1, finishedState |-> fin, view |-> view]

\* cardToSave && !savedCards.includes(cardToSave)
Saves(cards, index, saved) == index < Len(cards) /\ cards[index + 1] \notin Range(saved)

InitReview ==
    /\ interactiveCards \in UNION { [1..n -> ExportTexts] : n \in 0..MaxCards }
    /\ currentIndex = 0
    /\ savedCards = 1
    /\ arrays = << <<>> >>
    /\ historyStack = <<>>
    /\ finished = (interactiveCards = <<>>)
    /\ viewMode = IF interactiveCards = <<>> THEN "finished" ELSE "card"
    /\ savedCardIndexBeforeCart = Null
    /\ before = <<>>
    /\ ClozeIdle
    /\ ChunkIdle
    /\ RunIdle
    /\ ApiIdle
    /\ WebIdle
    /\ ConcIdle
    /\ ApkgIdle
    /\ GameIdle

\* handleCardAction(saveCard): the snapshot is pushed, the card is saved
\* when asked and not saved yet, and the next card or the finished screen
\* (showFinishedScreen) is shown.
handleCardAction(saveCard) ==
    /\ viewMode = "card"
    /\ ~finished
    /\ Len(arrays) < MaxArrays
    /\ historyStack' = Append(historyStack,
                              Snapshot(currentIndex, arrays, savedCards, finished, viewMode))
    /\ before' = Append(before, [index |-> currentIndex, saved |-> arrays[savedCards],
                                  finishedState |-> finished, view |-> viewMode])
    /\ arrays' = IF saveCard /\ Saves(interactiveCards, currentIndex, arrays[savedCards])
                 THEN Append([arrays EXCEPT ![savedCards] =
                                  Append(@, interactiveCards[currentIndex + 1])],
                             arrays[savedCards])
                 ELSE Append(arrays, arrays[savedCards])
    /\ IF currentIndex < Len(interactiveCards) - 1
       THEN /\ currentIndex' = currentIndex + 1
            /\ UNCHANGED <<finished, viewMode>>
       ELSE /\ finished' = TRUE
            /\ viewMode' = "saved"
            /\ UNCHANGED currentIndex
    /\ UNCHANGED <<interactiveCards, savedCards, savedCardIndexBeforeCart, pipelineVars,
                   apkgVars, gameVars>>

\* handleUndo: the last snapshot is popped and restored.
handleUndo ==
    /\ historyStack # <<>>
    /\ LET snapshot == historyStack[Len(historyStack)]
       IN /\ currentIndex' = snapshot.index
          /\ savedCards' = snapshot.saved
          /\ finished' = snapshot.finishedState
          /\ viewMode' = snapshot.view
    /\ historyStack' = SubSeq(historyStack, 1, Len(historyStack) - 1)
    /\ before' = SubSeq(before, 1, Len(before) - 1)
    /\ UNCHANGED <<interactiveCards, arrays, savedCardIndexBeforeCart, pipelineVars,
                   apkgVars, gameVars>>

showSavedCards ==
    /\ viewMode # "saved"
    /\ savedCardIndexBeforeCart' = currentIndex
    /\ viewMode' = "saved"
    /\ UNCHANGED <<interactiveCards, currentIndex, savedCards, arrays, historyStack, finished,
                   before, pipelineVars, apkgVars, gameVars>>

returnToCard ==
    /\ viewMode = "saved"
    /\ viewMode' = "card"
    /\ currentIndex' = IF savedCardIndexBeforeCart # Null
                          /\ savedCardIndexBeforeCart < Len(interactiveCards)
                       THEN savedCardIndexBeforeCart
                       ELSE Max2(0, Len(interactiveCards) - 1)
    /\ finished' = (currentIndex' >= Len(interactiveCards) - 1 /\ Len(interactiveCards) > 0)
    /\ UNCHANGED <<interactiveCards, savedCards, arrays, historyStack,
                   savedCardIndexBeforeCart, before, pipelineVars, apkgVars, gameVars>>

NextReview ==
    \/ \E saveCard \in BOOLEAN : handleCardAction(saveCard)
    \/ handleUndo
    \/ showSavedCards
    \/ returnToCard

SpecReview == InitReview /\ [][NextReview]_vars

(***************************************************************************)
(* The quiz page (script of INTERACTIVE_HTML) from startGame on.  Every    *)
(* question has the options of Options and one of them as correctAnswer,   *)
(* as get_interactive_questions_for_chunk returns them.  The browser runs  *)
(* one callback at a time: a tick of the interval while it is set, a click *)
(* on an option button while the buttons are enabled, a pending timeout,   *)
(* a click on Play Again on the final screen.  With no question            *)
(* initializeQuiz starts no game.                                          *)
(***************************************************************************)
MaxQuestions == 2

TimeLimit == 15

Options == {"x", "y"}

\* handleAnswerSelection with clearInterval(timerInterval) lost
TimerLeftRunning(timer) == timer

\* clearInterval(timerInterval) at the start of handleAnswerSelection
TimerCleared(timer) == FALSE

\* showQuestion at the question of index idx: endGame when there is none,
\* else new buttons and startTimer.
ShowQuestion(idx) ==
    IF idx >= Len(questions)
    THEN /\ timerInterval' = FALSE
         /\ buttons' = "none"
         /\ screen' = "end"
         /\ UNCHANGED timeLeft
    ELSE /\ timerInterval' = TRUE
         /\ timeLeft' = TimeLimit
         /\ buttons' = "enabled"
         /\ screen' = "question"

InitGame ==
    /\ questions \in UNION { [1..n -> Options] : n \in 0..MaxQuestions }
    /\ currentQuestionIndex = 0
    /\ score = 0
    /\ advance = 0
    /\ answered = <<>>
    /\ timerInterval = (questions # <<>>)
    /\ timeLeft = TimeLimit
    /\ buttons = IF questions = <<>> THEN "none" ELSE "enabled"
    /\ screen = IF questions = <<>> THEN "empty" ELSE "question"
    /\ ClozeIdle
    /\ ChunkIdle
    /\ RunIdle
    /\ ApiIdle
    /\ WebIdle
    /\ ConcIdle
    /\ ApkgIdle
    /\ ReviewIdle

\* handleAnswerSelection(selectedOption), after the interval was in the
\* state timer: the buttons are disabled, a correct option scores, and the
\* timeout that shows the next question is set.
handleAnswerSelection(selectedOption, timer) ==
    /\ timerInterval' = TimerCleared(timer)
    /\ buttons' = "disabled"
    /\ score' = IF selectedOption = questions[currentQuestionIndex + 1] THEN score + 1
                ELSE score
    /\ advance' = advance + 1
    /\ answered' = Append(answered, [question |-> currentQuestionIndex,
                                      option |-> selectedOption])
    /\ UNCHANGED <<questions, currentQuestionIndex, screen>>

\* The callback of setInterval: one second less, and at 0 the interval is
\* cleared and the question is answered with null.
Tick ==
    /\ timerInterval
    /\ timeLeft' = timeLeft - 1
    /\ IF timeLeft' <= 0
       THEN handleAnswerSelection("null", FALSE)
       ELSE UNCHANGED <<questions, currentQuestionIndex, score, timerInterval, buttons,
                        advance, screen, answered>>
    /\ UNCHANGED <<pipelineVars, apkgVars, reviewVars>>

\* button.onclick of an option button
Click(option) ==
    /\ buttons = "enabled"
    /\ handleAnswerSelection(option, timerInterval)
    /\ UNCHANGED <<timeLeft, pipelineVars, apkgVars, reviewVars>>

\* The callback of setTimeout: currentQuestionIndex++; showQuestion()
Advance ==
    /\ advance > 0
    /\ advance' = advance - 1
    /\ currentQuestionIndex' = currentQuestionIndex + 1
    /\ ShowQuestion(currentQuestionIndex')
    /\ UNCHANGED <<questions, score, answered, pipelineVars, apkgVars, reviewVars>>

\* startGame, the listener of Play Again on the final screen
PlayAgain ==
    /\ screen = "end"
    /\ score' = 0
    /\ currentQuestionIndex' = 0
    /\ answered' = <<>>
    /\ ShowQuestion(0)
    /\ UNCHANGED <<questions, advance, pipelineVars, apkgVars, reviewVars>>

NextGame ==
    \/ Tick
    \/ \E option \in Options : Click(option)
    \/ Advance
    \/ PlayAgain

SpecGame == InitGame /\ [][NextGame]_vars

(***************************************************************************)
(* Transcripts given to preprocess_transcript alone: every non-blank       *)
(* string of at most MaxPreTokens tokens, the tokens being pieces of       *)
(* timestamps, a bracketed timestamp, a blank, a word and a number.        *)
(***************************************************************************)
MaxPreTokens == 4

PreTokens == { <<"1", ":">>, <<"0", ":", "0", "0">>, <<" ">>, <<"2", "3">>, <<"a">>,
               <<"[", "0", "0", ":", "0", "1", "]">> }

PreTexts ==
    { tr \in { Flatten(ts) : ts \in UNION { [1..n -> PreTokens] : n \in 1..MaxPreTokens } } :
        ~IsBlank(tr) }

InitPre ==
    /\ transcript \in PreTexts
    /\ mode = "cards"
    /\ max_chunk_size = DefaultMaxChunkSize
    /\ pc = "clean"
    /\ cleaned_transcript = <<>>
    /\ i = 0
    /\ all_cards = <<>>
    /\ all_questions = <<>>
    /\ calls = <<>>
    /\ result = <<>>
    /\ ChunkIdle
    /\ ClozeIdle
    /\ ApiIdle
    /\ WebIdle
    /\ ConcIdle
    /\ PagesIdle

NextPre == Preprocess

SpecPre == InitPre /\ [][NextPre]_vars

(***************************************************************************)
(* Transcripts of several lines given to preprocess_transcript alone:      *)
(* every non-blank string of at most MaxLabelTokens tokens, the tokens     *)
(* being a capitalized word, a lower-case word, a number, a colon, a       *)
(* blank and a line break.                                                 *)
(***************************************************************************)
MaxLabelTokens == 4

LabelTokens == { <<"A", "b">>, <<"c">>, <<"7">>, <<":">>, <<" ">>, <<"\n">> }

LabelTexts ==
    { tr \in { Flatten(ts) : ts \in UNION { [1..n -> LabelTokens] : n \in 1..MaxLabelTokens } } :
        ~IsBlank(tr) }

InitLabel ==
    /\ transcript \in LabelTexts
    /\ mode = "cards"
    /\ max_chunk_size = DefaultMaxChunkSize
    /\ pc = "clean"
    /\ cleaned_transcript = <<>>
    /\ i = 0
    /\ all_cards = <<>>
    /\ all_questions = <<>>
    /\ calls = <<>>
    /\ result = <<>>
    /\ ChunkIdle
    /\ ClozeIdle
    /\ ApiIdle
    /\ WebIdle
    /\ ConcIdle
    /\ PagesIdle

SpecLabel == InitLabel /\ [][NextPre]_vars

(***************************************************************************)
(* Properties of fix_cloze_formatting.                                     *)
(***************************************************************************)
Trimmed(s) == Strip(s) = s

NoBraces(s) == RemoveBraces(s) = s

IsPrefix(p, s) == Len(p) <= Len(s) /\ SubSeq(s, 1, Len(p)) = p

IsSuffix(p, s) == Len(p) <= Len(s) /\ SubSeq(s, Len(s) - Len(p) + 1, Len(s)) = p

\* The text before the first "{" and the text after the last "}" of s: no
\* marker reaches into either.
BeforeMarkers(s) ==
    IF \A p \in 1..Len(s) : s[p] # "{" THEN s
    ELSE SubSeq(s, 1, (CHOOSE p \in 1..Len(s) :
                          s[p] = "{" /\ \A q \in 1..(p - 1) : s[q] # "{") - 1)

AfterMarkers(s) ==
    IF \A p \in 1..Len(s) : s[p] # "}" THEN s
    ELSE SubSeq(s, (CHOOSE p \in 1..Len(s) :
                       s[p] = "}" /\ \A q \in (p + 1)..Len(s) : s[q] # "}") + 1, Len(s))

\* The characters that are neither marker syntax nor blanks.
IsPlain(c) == c \notin ({"{", "}", ":"} \cup Whitespace)

PlainText(s) == SelectSeq(s, IsPlain)

\* C1: fix_cloze_formatting is idempotent: applied to its own result it
\* returns that result.
C1_Idempotent == pcz = "refixed" => refixed = corrected_card

\* C8: a card whose markers are each written with one or two opening and one
\* or two closing braces comes back with every marker in canonical form,
\* {{cN::answer}} or {{cN::answer::hint}}, with the index and the answer of
\* the marker as written.
C8_Canonicalized == (pcz = "fixed" /\ family = "markers") => corrected_card = canon

\* C9: the answer and the hint emitted for every rewritten marker contain no
\* brace and have no leading or trailing whitespace.
C9_EmittedClean ==
    pcz = "fixed" =>
        \A k \in 1..Len(emitted) :
            /\ NoBraces(emitted[k].answer) /\ Trimmed(emitted[k].answer)
            /\ NoBraces(emitted[k].hint) /\ Trimmed(emitted[k].hint)

\* C10: fix_cloze_formatting leaves the text outside the markers alone: a
\* card without "{" comes back identical; the text before the first "{" and
\* the text after the last "}" come back where they were; and the characters
\* that are neither braces, colons nor blanks (HTML tags among them) come
\* back all of them and in the same order.
C10_OutsideUnchanged ==
    pcz = "fixed" =>
        /\ (\A p \in 1..Len(card) : card[p] # "{") => corrected_card = card
        /\ IsPrefix(BeforeMarkers(card), corrected_card)
        /\ IsSuffix(AfterMarkers(card), corrected_card)
        /\ PlainText(corrected_card) = PlainText(card)

\* A card with a lead text, two markers and a <br> between them, rewritten
\* into its canonical form.
C10_Witness ==
    /\ pcz = "fixed"
    /\ family = "markers"
    /\ corrected_card = canon
    /\ corrected_card # card
    /\ BeforeMarkers(card) # <<>>
    /\ Contains(corrected_card, Break)

\* A single-brace marker {cN::answer} with an answer of one character or
\* more, none of them a brace, a colon or a newline: \{c(\d+)::([^{}:\n]+)\}
single_marker ==
    << Fix(<<{"{"}, {"c"}>>), PlusCap(Digits, 1), Fix(<<{":"}, {":"}>>),
       Item("rep", {"{", "}", ":", "\n"}, TRUE, 1, 0, TRUE, TRUE, 2, <<>>), Fix(<<{"}"}>>) >>

\* The marker m of s with two braces on either side and its answer trimmed.
Promoted(s, m) ==
    <<"{", "{", "c">> \o Group(s, m, 1) \o <<":", ":">> \o Strip(Group(s, m, 2)) \o <<"}", "}">>

\* The card after the primary rewrite holds neither "{{" nor "}}" and holds
\* "{c", "::" and "}".
FallbackRuns(c) ==
    /\ ~Contains(SubPattern(c), <<"{", "{">>)
    /\ ~Contains(SubPattern(c), <<"}", "}">>)
    /\ Contains(SubPattern(c), <<"{", "c">>)
    /\ Contains(SubPattern(c), <<":", ":">>)
    /\ Contains(SubPattern(c), <<"}">>)

\* C20: the promotion of single-brace markers and the second primary rewrite
\* run only when the card after the primary rewrite holds neither "{{" nor
\* "}}" and holds "{c", "::" and "}"; otherwise the card comes back as the
\* primary rewrite left it; and when they run, every single-brace marker
\* {cN::answer} of the card is {{cN::answer}} in the card returned.
C20_Fallback ==
    pcz = "fixed" =>
        IF FallbackRuns(card)
        THEN LET ms == FindAll(single_marker, card)
             IN \A k \in 1..Len(ms) : Contains(corrected_card, Promoted(card, ms[k]))
        ELSE corrected_card = SubPattern(card)

(***************************************************************************)
(* Properties of chunk_text.                                               *)
(***************************************************************************)
IsNonWhite(c) == c \notin Whitespace

NonWhite(s) == SelectSeq(s, IsNonWhite)

\* A cleaned text: not empty, single spaces only, none at either end.
IsCleaned(t) ==
    /\ t # <<>>
    /\ \A p \in 1..Len(t) : t[p] \in Whitespace => t[p] = " "
    /\ t[1] # " " /\ t[Len(t)] # " "
    /\ \A p \in 1..(Len(t) - 1) : ~(t[p] = " " /\ t[p + 1] = " ")

\* C3: for a cleaned text, the non-whitespace characters of the returned
\* chunks, concatenated in list order, are the non-whitespace characters of
\* the text in the same order.
C3_Coverage ==
    (pck = "returned" /\ IsCleaned(text)) => NonWhite(Flatten(chunks)) = NonWhite(text)

\* A cleaned text returned as several chunks, one of them with a merged piece.
C3_Witness ==
    /\ pck = "returned"
    /\ IsCleaned(text)
    /\ Len(chunks) >= 2
    /\ \E n \in 1..Len(chunks) : merges[n] > 0

C5_MinSize ==
    pck = "returned" => \A n \in 2..Len(chunks) : Len(chunks[n]) >= min_size

\* A piece shorter than min_size was merged and a later chunk was emitted.
C5_Witness ==
    /\ pck = "returned"
    /\ min_size >= 2
    /\ Len(chunks) >= 2
    /\ \E n \in 1..Len(chunks) : merges[n] > 0

\* The offsets at which chunk can end when it is laid on t at or after
\* from as m + 1 pieces, each a slice of t, the pieces in increasing
\* disjoint ranges and joined in chunk by single spaces.
RECURSIVE Ends(_, _, _, _)
Ends(t, chunk, m, from) ==
    IF m = 0
    THEN { a + Len(chunk) :
             a \in { b \in from..(Len(t) - Len(chunk)) : Slice(t, b, b + Len(chunk)) = chunk } }
    ELSE UNION { UNION { Ends(t, SubSeq(chunk, j + 1, Len(chunk)), m - 1, e) :
                           e \in Ends(t, SubSeq(chunk, 1, j - 1), 0, from) } :
                   j \in { k \in 1..Len(chunk) : chunk[k] = " " } }

\* The chunks cs from the n-th on lie on t at or after from, in list order,
\* chunk k as ms[k] + 1 pieces.
RECURSIVE Located(_, _, _, _, _)
Located(t, cs, ms, n, from) ==
    \/ n > Len(cs)
    \/ \E e \in Ends(t, cs[n], ms[n], from) : Located(t, cs, ms, n + 1, e)

\* C11 as claimed: every returned chunk is a contiguous substring of the
\* text, and the chunks occupy disjoint, increasing ranges of it.
C11_Contiguous ==
    pck = "returned" => Located(text, chunks, [n \in 1..Len(chunks) |-> 0], 1, 0)

\* C11: every returned chunk into which no piece was merged is a contiguous
\* substring of the text; a chunk into which k pieces were merged is k + 1
\* contiguous substrings joined by single spaces; and all these substrings
\* occupy disjoint, increasing ranges of the text.
C11_ContiguousPieces ==
    pck = "returned" => Located(text, chunks, merges, 1, 0)

\* Two chunks or more are returned and one of them, with a merged piece, is
\* not a substring of the text.
C11_Witness ==
    /\ pck = "returned"
    /\ Len(chunks) >= 2
    /\ \E n \in 1..Len(chunks) : merges[n] > 0 /\ ~Contains(text, chunks[n])

Punct == {".", "!", "?"}

\* The offsets of a..b-1 at which t holds a character of set.
Offsets(t, set, a, b) == { p \in a..(b - 1) : t[p + 1] \in set }

Highest(S) == CHOOSE p \in S : \A q \in S : q <= p

\* Where the piece ends that begins at st: after the last punctuation at
\* from or later, else after the last space at firstSpace or later, else at
\* st + mx.
BreakPoint(t, st, mx, from, firstSpace) ==
    LET puncts == Offsets(t, Punct, from, st + mx)
        spaces == Offsets(t, {" "}, firstSpace, st + mx)
    IN IF puncts # {} THEN Highest(puncts) + 1
       ELSE IF spaces # {} THEN Highest(spaces) + 1
       ELSE st + mx

\* C17 as claimed: a slice that is not the final one ends after the last
\* '.', '!' or '?' of the slice, else after the last space of the slice,
\* else at max_size characters.
C17_BreakInSlice ==
    [][(pck = "loop" /\ start + max_size < Len(text)) =>
          start' = BreakPoint(text, start, max_size, start, start)]_vars

\* C17: a slice that is not the final one ends after the last '.', '!' or
\* '?' among its last SearchWindow characters, else after the last space
\* among them that is not the first character of the slice, else at max_size
\* characters.
C17_BreakInWindow ==
    [][(pck = "loop" /\ start + max_size < Len(text)) =>
          start' = BreakPoint(text, start, max_size,
                              Max2(start, start + max_size - SearchWindow),
                              Max2(start + 1, start + max_size - SearchWindow))]_vars

\* The first piece was cut at max_size characters although it holds a '.'
\* and a space, both before its last SearchWindow characters.
C17_Witness ==
    /\ pck # "idle"
    /\ max_size > SearchWindow
    /\ Len(text) > max_size
    /\ Len(chunks) >= 1
    /\ IsPrefix(SubSeq(text, 1, max_size), chunks[1])
    /\ Contains(SubSeq(text, 1, max_size), <<".", " ">>)

\* C18 as claimed: with a chunk already emitted, a trimmed piece shorter than
\* min_size is appended to the last chunk after one space and the number of
\* chunks does not grow; otherwise a non-empty piece becomes a new chunk.
C18_MergeRule ==
    [][(pck = "loop" /\ start < Len(text)) =>
          LET piece == Strip(Slice(text, start, start'))
          IN IF chunks # <<>> /\ Len(piece) < min_size
             THEN /\ Len(chunks') = Len(chunks)
                  /\ \A n \in 1..(Len(chunks) - 1) : chunks'[n] = chunks[n]
                  /\ chunks'[Len(chunks)] = chunks[Len(chunks)] \o <<" ">> \o piece
             ELSE piece # <<>> => chunks' = Append(chunks, piece)]_vars

\* C18: with a chunk already emitted, a non-empty trimmed piece shorter than
\* min_size is appended to the last chunk after one space and the number of
\* chunks does not grow; any other non-empty piece becomes a new chunk; an
\* empty piece changes nothing.
C18_MergeRuleNonEmpty ==
    [][(pck = "loop" /\ start < Len(text)) =>
          LET piece == Strip(Slice(text, start, start'))
          IN IF chunks # <<>> /\ piece # <<>> /\ Len(piece) < min_size
             THEN /\ Len(chunks') = Len(chunks)
                  /\ \A n \in 1..(Len(chunks) - 1) : chunks'[n] = chunks[n]
                  /\ chunks'[Len(chunks)] = chunks[Len(chunks)] \o <<" ">> \o piece
             ELSE IF piece # <<>> THEN chunks' = Append(chunks, piece)
             ELSE chunks' = chunks]_vars

\* The loop is still running, two chunks were emitted and a piece was merged
\* into the second.
C18_Witness ==
    /\ pck = "loop"
    /\ start < Len(text)
    /\ Len(chunks) >= 2
    /\ merges[Len(chunks)] > 0

\* C19: the empty text yields no chunk, and a non-blank text of at most
\* max_size characters yields one chunk, the trimmed text, whatever min_size.
C19_EdgeCases ==
    pck = "returned" =>
        /\ text = <<>> => chunks = <<>>
        /\ (Len(text) <= max_size /\ ~IsBlank(text)) => chunks = <<Strip(text)>>

\* A text with a blank at an end, not longer than max_size and shorter than
\* min_size, with min_size above max_size, came back as one trimmed chunk.
C19_Witness ==
    /\ pck = "returned"
    /\ ~IsBlank(text)
    /\ Strip(text) # text
    /\ Len(text) <= max_size
    /\ max_size < min_size
    /\ chunks = <<Strip(text)>>

\* C25: every iteration of the loop moves start forward, by at least one
\* character and not beyond the end of the text, and the loop ends:
\* chunk_text returns.
C25_Terminates ==
    /\ [][(pck = "loop" /\ start < Len(text)) =>
             (start < start' /\ start' <= Len(text))]_vars
    /\ <>(pck = "returned")

\* chunk_text has returned after more iterations than one, one of them a
\* merge.
C25_Witness ==
    /\ pck = "returned"
    /\ start = Len(text)
    /\ Len(text) > max_size
    /\ \E n \in 1..Len(merges) : merges[n] > 0

\* C26: when max_size >= min_size + 251 and the text is a cleaned text,
\* no chunk but the last holds a merged piece or is longer than max_size,
\* and the last chunk holds at most one and is not longer than
\* max_size + min_size.
C26_OnlyLastMerged ==
    (pck = "returned" /\ max_size >= min_size + SearchWindow + 1 /\ IsCleaned(text)) =>
        /\ \A n \in 1..(Len(chunks) - 1) : merges[n] = 0 /\ Len(chunks[n]) <= max_size
        /\ chunks # <<>> =>
               /\ merges[Len(chunks)] <= 1
               /\ Len(chunks[Len(chunks)]) <= max_size + min_size

\* The last piece was merged into a chunk of max_size characters, after a
\* chunk that took none.
C26_Witness ==
    /\ pck = "returned"
    /\ max_size = min_size + SearchWindow + 1
    /\ IsCleaned(text)
    /\ Len(chunks) >= 2
    /\ merges[Len(chunks)] = 1
    /\ Len(chunks[Len(chunks)]) = max_size + min_size

(***************************************************************************)
(* Properties of preprocess_transcript.                                    *)
(***************************************************************************)
\* The patterns of the timestamps preprocess_transcript strips.
TimestampPatterns == << vtt_pattern, srt_pattern, simple_pattern >>

HasTimestamp(t) == \E k \in 1..Len(TimestampPatterns) : FindAll(TimestampPatterns[k], t) # <<>>

\* C12: the string preprocess_transcript returns holds no match of a
\* timestamp pattern, no whitespace but single spaces between non-space
\* characters, and none at either end.
C12_CleanedText ==
    pc \in {"split", "done"} =>
        /\ ~HasTimestamp(cleaned_transcript)
        /\ cleaned_transcript = <<>> \/ IsCleaned(cleaned_transcript)

\* The pieces of t between the characters of seps, the empty ones included.
RECURSIVE SplitOn(_, _, _)
SplitOn(t, seps, cur) ==
    IF t = <<>> THEN <<cur>>
    ELSE IF Head(t) \in seps THEN <<cur>> \o SplitOn(Tail(t), seps, <<>>)
    ELSE SplitOn(Tail(t), seps, Append(cur, Head(t)))

NotEmpty(s) == s # <<>>

Lines(t) == SplitOn(t, Newline, <<>>)

Words(t) == SelectSeq(SplitOn(t, Whitespace, <<>>), NotEmpty)

\* ws is a subsequence of vs: its elements occur in vs in the same order.
RECURSIVE Embedded(_, _)
Embedded(ws, vs) ==
    IF ws = <<>> THEN TRUE
    ELSE IF vs = <<>> THEN FALSE
    ELSE IF Head(ws) = Head(vs) THEN Embedded(Tail(ws), Tail(vs))
    ELSE Embedded(ws, Tail(vs))

HeaderWords == { <<"W", "E", "B", "V", "T", "T">>, <<"N", "O", "T", "E">>,
                 <<"S", "T", "Y", "L", "E">>, <<"R", "E", "G", "I", "O", "N">> }

\* A line that holds no colon and no timestamp and is neither an index
\* line nor the first line of a header block.
PlainLine(ln) ==
    /\ ~Contains(ln, <<":">>)
    /\ ~HasTimestamp(ln)
    /\ FindAll(index_pattern, ln) = <<>>
    /\ \A h \in HeaderWords : ~IsPrefix(h, ln)

\* C21: the words of a line without a colon (and without a timestamp, that
\* is no index line and no header line) are all in the cleaned text, in
\* their order.
C21_LabelOnly ==
    pc \in {"split", "done"} =>
        \A k \in 1..Len(Lines(transcript)) :
            PlainLine(Lines(transcript)[k]) =>
                Embedded(Words(Lines(transcript)[k]), Words(cleaned_transcript))

(***************************************************************************)
(* Properties of get_all_anki_cards and get_all_interactive_questions.     *)
(***************************************************************************)
\* The lists the adapter returned, call by call.
Returned(cs) == [k \in 1..Len(cs) |-> cs[k].returned]

Succeeded(c) == c.returned # <<>>

\* C2: a chunk whose adapter call fails (an exception, an unparseable
\* response, an empty list) does not end get_all_anki_cards: the adapter is
\* called for every chunk, in order, a failed call contributes nothing, and
\* the result is the cards of the chunks that succeeded.
C2_PartialFailure ==
    (pc = "done" /\ mode = "cards" /\ chunks # <<>>) =>
        /\ Len(calls) = Len(chunks)
        /\ \A k \in 1..Len(calls) : calls[k].chunk = k
        /\ \A k \in 1..Len(calls) : calls[k].outcome \in Failures => calls[k].returned = <<>>
        /\ result = Flatten(Returned(SelectSeq(calls, Succeeded)))

\* Three chunks, the call for the second raises, the calls for the first
\* and the third return cards, and the result is those cards.
C2_Witness ==
    /\ pc = "done"
    /\ mode = "cards"
    /\ Len(chunks) = 3
    /\ Len(calls) = 3
    /\ calls[1].returned # <<>>
    /\ calls[2].outcome = "raises"
    /\ calls[3].returned # <<>>
    /\ result = calls[1].returned \o calls[3].returned

\* C6: the list get_all_anki_cards returns is the concatenation, in chunk
\* order, of the lists the adapter returned, each in the order returned.
C6_Ordering ==
    (pc = "done" /\ mode = "cards") =>
        /\ \A k \in 1..Len(calls) : calls[k].chunk = k
        /\ result = Flatten(Returned(calls))

\* Three chunks, the first gave two different cards and the others gave
\* cards too.
C6_Witness ==
    /\ pc = "done"
    /\ mode = "cards"
    /\ Len(calls) = 3
    /\ Len(calls[1].returned) = 2
    /\ calls[1].returned[1] # calls[1].returned[2]
    /\ calls[2].returned # <<>>
    /\ calls[3].returned # <<>>
    /\ calls[3].returned # calls[1].returned
    /\ Len(result) >= 4

\* C7: for a transcript that is empty or blank, or that preprocess_transcript
\* reduces to the empty string (the transcripts of HeadersOnly among them),
\* both get_all_anki_cards and get_all_interactive_questions return [] and
\* no per-chunk adapter is ever called.
C7_EmptyInput ==
    /\ (IsBlank(transcript) \/ transcript \in HeadersOnly) => calls = <<>>
    /\ (pc = "done" /\ (\/ IsBlank(transcript)
                        \/ transcript \in HeadersOnly
                        \/ cleaned_transcript = <<>>)) =>
           result = <<>> /\ calls = <<>>

\* get_all_interactive_questions has returned for a transcript that holds
\* only a timestamp line.
C7_Witness ==
    /\ pc = "done"
    /\ mode = "questions"
    /\ ~IsBlank(transcript)
    /\ transcript \in HeadersOnly
    /\ cleaned_transcript = <<>>
    /\ result = <<>>
    /\ calls = <<>>

\* C13: the adapter is called at most once for each chunk and in increasing
\* chunk order; every call has returned before the loop goes on, and the
\* loop is then past the chunk, so that no chunk, failed or not, is submitted
\* again.
C13_NoRetry ==
    /\ \A j, k \in 1..Len(calls) : j < k => calls[j].chunk < calls[k].chunk
    /\ \A k \in 1..Len(calls) :
          /\ calls[k].chunk \in 1..Len(chunks)
          /\ calls[k].chunk < i
          /\ calls[k].outcome \in Failures \cup {"list"}

\* get_all_interactive_questions has returned after three calls, the first
\* and the third of which failed.
C13_Witness ==
    /\ pc = "done"
    /\ mode = "questions"
    /\ Len(calls) = 3
    /\ calls[1].outcome = "bad_json"
    /\ calls[2].returned # <<>>
    /\ calls[3].outcome = "raises"
    /\ result = calls[2].returned

\* C14: when the adapter has failed for every chunk, get_all_anki_cards
\* returns the empty list, and generate then redirects to the index page;
\* the review page is never rendered.
C14_TotalFailure ==
    (/\ mode = "cards"
     /\ chunks # <<>>
     /\ Len(calls) = Len(chunks)
     /\ \A k \in 1..Len(calls) : calls[k].returned = <<>>) =>
        /\ http.kind # "render"
        /\ pc \in {"done", "responded"} => result = <<>>
        /\ pc = "responded" => http.kind = "redirect" /\ http.to = "index"

\* A request for cards whose transcript gave two chunks: the call for the
\* first raised, the call for the second returned an empty array, and the
\* handler redirected to the index page.
C14_Witness ==
    /\ pc = "responded"
    /\ mode = "cards"
    /\ Len(chunks) = 2
    /\ Len(calls) = 2
    /\ calls[1].outcome = "raises"
    /\ calls[2].outcome = "list"
    /\ calls[2].returned = <<>>
    /\ result = <<>>
    /\ http = RedirectToIndex(TRUE)

\* A question as the quiz page needs it: a non-blank question, two options
\* or more, and a correctAnswer that is one of the options.
WellFormed(q) ==
    /\ q.typed
    /\ \E p \in 1..Len(q.question) : q.question[p] \notin Whitespace
    /\ Len(q.options) >= 2
    /\ \E k \in 1..Len(q.options) : q.options[k] = q.correctAnswer

\* C15: every question get_interactive_questions_for_chunk returns is well
\* formed, and from an array it returns the well-formed objects, all of them
\* and in the order of the array.
C15_ValidQuestions ==
    pc = "asked" =>
        /\ \A k \in 1..Len(calls[1].returned) : WellFormed(calls[1].returned[k])
        /\ response.outcome = "list" =>
              calls[1].returned = SelectSeq(response.items, WellFormed)

\* An array of two different valid questions with an invalid one between
\* them came back as the two valid questions in their order.
C15_Witness ==
    /\ pc = "asked"
    /\ Len(response.items) = 3
    /\ ~WellFormed(response.items[2])
    /\ response.items[1] # response.items[3]
    /\ calls[1].returned = <<response.items[1], response.items[3]>>

GenericWarning(md) ==
    IF md = "questions" THEN "warning: failed to generate interactive questions"
    ELSE "warning: failed to generate Anki cards"

\* C22: when get_all_* returns an empty list to generate, the handler
\* redirects to the index page and flashes nothing but, when no message was
\* flashed before, the generic warning.
C22_EmptyResult ==
    [][(pc = "done" /\ form # NoForm /\ result = <<>> /\ pc' = "responded") =>
          /\ http'.kind = "redirect"
          /\ http'.to = "index"
          /\ flashed' \in {flashed, Append(flashed, GenericWarning(mode))}
          /\ flashed' # flashed => flashed = <<>>]_vars

InRange(str) == IsInt(str) /\ IntOf(str) >= LowestMaxSize /\ IntOf(str) <= HighestMaxSize

SizeWarning == "warning: invalid max chunk size, using default 8000"

\* C23: once generate has read the form, max_chunk_size is an integer of
\* 1000..16000, the value of the form when that is one and else 8000 with
\* the warning flashed, and chunk_text is called with it.
C23_MaxSizeInRange ==
    (form # NoForm /\ pc # "request") =>
        /\ max_chunk_size \in LowestMaxSize..HighestMaxSize
        /\ pck # "idle" => max_size = max_chunk_size
        /\ transcript # <<>> =>
               IF InRange(form.max_size)
               THEN max_chunk_size = IntOf(form.max_size) /\ SizeWarning \notin Range(flashed)
               ELSE max_chunk_size = FallbackMaxSize /\ SizeWarning \in Range(flashed)

C23_Witness ==
    /\ form # NoForm
    /\ pck = "loop"
    /\ IsInt(form.max_size)
    /\ IntOf(form.max_size) > HighestMaxSize
    /\ max_size = FallbackMaxSize

(***************************************************************************)
(* Properties of get_anki_cards_for_chunk.                                 *)
(***************************************************************************)
NotBlankCard(c) == ~IsBlank(c)

\* C27: from an array with an element that is no string the adapter
\* returns nothing; from an array of strings it returns the normalized
\* non-blank ones in their order, none of them blank.
C27_AllOrNothing ==
    (pc = "parsed" /\ response.outcome = "list") =>
        IF \E k \in 1..Len(response.items) : ~response.isstr[k]
        THEN calls[1].returned = <<>>
        ELSE /\ Len(calls[1].returned) = Len(SelectSeq(response.items, NotBlankCard))
             /\ \A k \in 1..Len(calls[1].returned) :
                    /\ calls[1].returned[k] =
                           fix_cloze_formatting(SelectSeq(response.items, NotBlankCard)[k])
                    /\ ~IsBlank(calls[1].returned[k])

\* Two cards around something that is no string gave nothing.
C27_Witness ==
    /\ pc = "parsed"
    /\ Len(response.items) = 3
    /\ response.isstr = <<TRUE, FALSE, TRUE>>
    /\ NotBlankCard(response.items[1])
    /\ NotBlankCard(response.items[3])
    /\ calls[1].returned = <<>>

(***************************************************************************)
(* Properties of the /download_apkg handler.                               *)
(***************************************************************************)
\* The request holds a JSON object whose saved_cards is a non-empty list of
\* strings.
WellFormedBody(b) ==
    /\ b.is_json
    /\ b.kind = "object"
    /\ b.has_key
    /\ b.is_list
    /\ b.items # <<>>
    /\ \A k \in 1..Len(b.items) : b.isstr[k]

\* C24: once the request has been dealt with, no temporary file is left,
\* and a request that is not well formed made none and was answered 415
\* or 400.
C24_TempFileRemoved ==
    /\ pcd = "done" => temp_file # "exists"
    /\ (pcd = "done" /\ ~WellFormedBody(body)) => (temp_file = "none" /\ status \in {415, 400})

Qualifies(t) == ~IsBlank(t) /\ \E p \in 1..(Len(t) - 2) : SubSeq(t, p, p + 2) = <<"{", "{", "c">>

Cleaned(cards) == [k \in 1..Len(cards) |-> fix_cloze_formatting(cards[k])]

\* C28: the notes of the deck are the cleaned texts of the saved cards that
\* are not blank and hold "{{c", in the order of the saved cards; when there
\* is none the handler answers 400 and makes no file, and when there is one
\* the cards that were skipped do not make it answer 400.
C28_NotesAdded ==
    (WellFormedBody(body) /\ pcd # "request") =>
        /\ notes = SelectSeq(Cleaned(body.items), Qualifies)
        /\ SelectSeq(Cleaned(body.items), Qualifies) = <<>> =>
               (pcd = "done" /\ status = 400 /\ temp_file = "none")
        /\ SelectSeq(Cleaned(body.items), Qualifies) # <<>> => status # 400

\* Of three saved cards the first and the third became notes and the
\* second, which holds no cloze, was skipped; the package was sent.
C28_Witness ==
    /\ pcd = "done"
    /\ status = 200
    /\ Len(body.items) = 3
    /\ ~Qualifies(fix_cloze_formatting(body.items[2]))
    /\ notes = <<fix_cloze_formatting(body.items[1]), fix_cloze_formatting(body.items[3])>>
    /\ notes[1] # notes[2]

(***************************************************************************)
(* Properties of the review page.                                          *)
(***************************************************************************)
\* What the page shows of its state: currentIndex, the saved cards, the
\* finished flag and the view.
Shown(index, saved, fin, view) ==
    [index |-> index, saved |-> saved, finishedState |-> fin, view |-> view]

\* C29: every snapshot of the history stack holds the values that
\* currentIndex, savedCards, finished and viewMode had before its action,
\* whatever was saved since; handleUndo restores the values of the last
\* snapshot, so n calls of it undo the last n actions; and no card text is
\* twice in savedCards.
C29_UndoInverse ==
    /\ [](/\ Len(historyStack) = Len(before)
          /\ \A k \in 1..Len(historyStack) :
                 Shown(historyStack[k].index, arrays[historyStack[k].saved],
                       historyStack[k].finishedState, historyStack[k].view) = before[k]
          /\ \A j, k \in 1..Len(arrays[savedCards]) :
                 arrays[savedCards][j] = arrays[savedCards][k] => j = k)
    /\ [][Len(historyStack') < Len(historyStack) =>
             Shown(currentIndex', arrays'[savedCards'], finished', viewMode')
                 = before[Len(before)]]_vars

\* Two actions, the first of them a save, have been undone: the array that
\* took the card is no longer savedCards, and nothing is saved.
C29_Witness ==
    /\ viewMode = "card"
    /\ historyStack = <<>>
    /\ Len(arrays) >= 3
    /\ arrays[1] # <<>>
    /\ arrays[savedCards] = <<>>
    /\ currentIndex = 0

(***************************************************************************)
(* Properties of the quiz page.                                            *)
(***************************************************************************)
Right(a) == a.option = questions[a.question + 1]

\* Every question shown so far was answered once, in turn; the score is
\* the number of the answers that are the correct option, so an answer adds
\* at most 1 and the timer adds nothing; currentQuestionIndex does not
\* exceed totalQuestions.
AnsweredOnce ==
    /\ \A k \in 1..Len(answered) : answered[k].question = k - 1
    /\ Len(answered) = currentQuestionIndex + advance
    /\ advance \in {0, 1}
    /\ score = Len(SelectSeq(answered, Right))
    /\ currentQuestionIndex <= Len(questions)

\* currentQuestionIndex moves by 1, once a question has been answered, or
\* back to 0 when the game starts again.
AdvancesByOne ==
    currentQuestionIndex' # currentQuestionIndex =>
        \/ currentQuestionIndex' = currentQuestionIndex + 1 /\ advance = 1
        \/ currentQuestionIndex' = 0 /\ screen = "end"

\* C30 as stated: every question is answered once, by a click or by the
\* timer, the score grows by at most 1 per question and not at all by the
\* timer, currentQuestionIndex advances by 1 per question, and
\* score <= currentQuestionIndex <= totalQuestions.
C30_AnsweredOnce ==
    /\ [](AnsweredOnce /\ score <= currentQuestionIndex)
    /\ [][AdvancesByOne]_vars

\* C30, with the score compared to the questions answered: while the
\* timeout of handleAnswerSelection is pending the question just answered
\* counts, score <= currentQuestionIndex + 1, and else
\* score <= currentQuestionIndex.
C30_AnsweredOnceScored ==
    /\ [](AnsweredOnce /\ score <= currentQuestionIndex + advance)
    /\ [][AdvancesByOne]_vars

\* The first question was answered by the timer and the second by a click
\* on its correct option; the next question is awaited.
C30_Witness ==
    /\ Len(answered) = 2
    /\ answered[1].option = "null"
    /\ Right(answered[2])
    /\ score = 1
    /\ advance = 1
    /\ currentQuestionIndex = 1

====
